---- MODULE Spec2Model ----
(***************************************************************************)
(* Culture scoring and culture/performance correlation engine of the       *)
(* Glassdoor culture dashboard: the dictionary review scorer               *)
(* (culture_scoring.py), the company profile aggregation (app.py) and the  *)
(* composite score and correlation analysis (performance_analysis.py,      *)
(* fmp_performance.py).                                                    *)
(*                                                                         *)
(* Python values are modelled as records: None is [type |-> "NoneType"],   *)
(* a str is [type |-> "str", value |-> <<characters>>], a float or int     *)
(* that may be None is the exact rational [num |-> n, den |-> d], d > 0,   *)
(* in lowest terms.  A dict is a function whose DOMAIN is its key set.     *)
(***************************************************************************)
EXTENDS Integers, Sequences, FiniteSets, TLC

VARIABLES
    review_text,        \* argument of score_review_with_dictionary
    scores,             \* its return value, NotCalled before the call
    composite_call,     \* arguments of calculate_composite_score
    composite_score,    \* its return value, NotCalled before the call
    analyzer,           \* the analyzer object the correlation route calls
    culture_data,       \* list built by the correlation route, one dict per company
    performance_data,   \* list built by the correlation route, one dict per company
    results,            \* return value of calculate_correlation, NotCalled before the call
    review_culture_scores, \* table review_culture_scores: review id -> score row
    reviews,            \* table reviews: review id -> review row
    company_metrics,    \* the last call of get_company_metrics, NotCalled before the call
    aggregated,         \* the last call of aggregate_review_scores, NotCalled before the call
    confidence_metrics, \* argument of calculate_relative_confidence
    confidence_result,  \* its return value, NotCalled before the call
    mit_max_values_cache, \* app.py global _mit_max_values_cache
    company_metrics_cache, \* table company_metrics_cache: company_name -> metrics_json
    mit_max_values,     \* the last call of get_mit_max_values, NotCalled before the call
    culture_profile,    \* the last response of get_culture_profile, NotCalled before the call
    invalidated,        \* history: invalidate_cache() ran after review_culture_scores last changed
    requests,            \* concurrent requests: thread -> target, position, local value
    company_analysis,  \* the response of the last /api/company-analysis request
    scatter,  \* the response of the last culture-performance scatter request
    scoring_run,  \* the script and the failing inserts of the last scoring run, NotCalled before it
    company_culture_profiles,  \* table company_culture_profiles: company_name -> profile row
    extraction_control,  \* table extraction_control: the single row with id 1
    extraction_queue,  \* table extraction_queue: id -> row
    extractors,  \* queue id -> the OpenWebNinjaExtractor of its last extraction, None before it
    workers,  \* the threads started on _run_extraction, in start order
    manager_thread,  \* process -> ExtractionManager._thread of its singleton
    control_calls  \* process -> the start(), pause() or stop() call it is executing, None between calls

vars == <<review_text, scores, composite_call, composite_score, analyzer, culture_data,
          performance_data, results, review_culture_scores, reviews, company_metrics,
          aggregated, confidence_metrics, confidence_result, mit_max_values_cache,
          company_metrics_cache, mit_max_values, culture_profile, invalidated,
          requests,
          company_analysis,
          scatter,
          scoring_run,
          company_culture_profiles,
          extraction_control,
          extraction_queue,
          extractors,
          workers,
          manager_thread,
          control_calls>>

scorerVars == <<review_text, scores>>
compositeVars == <<composite_call, composite_score>>
correlationVars == <<analyzer, culture_data, performance_data, results>>
metricsVars == <<review_culture_scores, reviews, company_metrics>>
aggregateVars == <<aggregated>>
confidenceVars == <<confidence_metrics, confidence_result>>
servingVars == <<mit_max_values_cache, company_metrics_cache, mit_max_values, culture_profile>>
concurrentVars == <<requests>>
alignmentVars == <<company_analysis, scatter>>
scoringVars == <<scoring_run, company_culture_profiles>>
extractionVars == <<extraction_control, extraction_queue, extractors, workers, manager_thread, control_calls>>
\* The variables of the concurrent requests, the correlation summary, the
\* alignment scores, the stored company profiles and the extraction manager.
lateVars == <<concurrentVars, alignmentVars, scoringVars, extractionVars>>

----------------------------------------------------------------------------
(* What the steps of one component leave alone: the variables of the others *)

exceptConcurrentVars ==
    <<scorerVars, compositeVars, correlationVars, metricsVars,
      aggregateVars, confidenceVars, invalidated, alignmentVars,
      scoringVars, extractionVars>>

exceptAlignmentVars ==
    <<scorerVars, compositeVars, correlationVars, metricsVars,
      aggregateVars, confidenceVars, invalidated, concurrentVars,
      scoringVars, extractionVars>>

exceptScoringVars ==
    <<scorerVars, compositeVars, correlationVars, aggregateVars,
      confidenceVars, servingVars, concurrentVars, alignmentVars,
      extractionVars>>

exceptExtractionVars ==
    <<scorerVars, compositeVars, correlationVars, metricsVars,
      aggregateVars, confidenceVars, servingVars, invalidated,
      concurrentVars, alignmentVars, scoringVars>>

----------------------------------------------------------------------------
(* Python values *)

None == [type |-> "NoneType"]
NotCalled == [type |-> "NotCalled"]
PyStr(chars) == [type |-> "str", value |-> chars]
PyInt(n) == [type |-> "int", value |-> n]
PyList(items) == [type |-> "list", value |-> items]
Raised(exception) == [type |-> "exception", value |-> exception]
IsRaised(x) == "type" \in DOMAIN x /\ x.type = "exception"

Abs(n) == IF n < 0 THEN -n ELSE n
Min(a, b) == IF a < b THEN a ELSE b
Max(a, b) == IF a > b THEN a ELSE b

RECURSIVE GCD(_, _)
GCD(a, b) == IF b = 0 THEN a ELSE GCD(b, a % b)

\* The exact value n/d (d # 0) in lowest terms with a positive denominator.
Rat(n, d) ==
    LET g == GCD(Abs(n), Abs(d))
        s == IF d < 0 THEN -1 ELSE 1
    IN [num |-> s * (n \div g), den |-> s * (d \div g)]

IsNum(x) == DOMAIN x = {"num", "den"}
RatAdd(x, y) == Rat(x.num * y.den + y.num * x.den, x.den * y.den)
RatSub(x, y) == Rat(x.num * y.den - y.num * x.den, x.den * y.den)
RatMul(x, y) == Rat(x.num * y.num, x.den * y.den)
RatLess(x, y) == x.num * y.den < y.num * x.den
RatLeq(x, y) == x.num * y.den <= y.num * x.den
RatMin(x, y) == IF RatLess(y, x) THEN y ELSE x
RatMax(x, y) == IF RatLess(x, y) THEN y ELSE x

\* Python truthiness of a value ("if not x").
Truthy(x) ==
    CASE x.type = "NoneType" -> FALSE
      [] x.type = "str" -> Len(x.value) > 0
      [] x.type = "list" -> Len(x.value) > 0
      [] x.type = "int" -> x.value # 0
      [] x.type = "dict" -> DOMAIN x.value # {}
      [] OTHER -> TRUE

----------------------------------------------------------------------------
(* culture_scoring.py: the dimension lexicon *)

HOFSTEDE_DIMENSIONS ==
    [ process_results |-> <<
        \* process_oriented
        <<
            <<"p","r","o","c","e","d","u","r","e","s">>,
            <<"c","o","m","p","l","i","a","n","c","e">>,
            <<"f","o","l","l","o","w","i","n","g"," ","r","u","l","e","s">>,
            <<"b","u","r","e","a","u","c","r","a","t","i","c">>,
            <<"r","e","d"," ","t","a","p","e">>,
            <<"s","t","e","p","-","b","y","-","s","t","e","p">>,
            <<"d","o","c","u","m","e","n","t","a","t","i","o","n">>,
            <<"s","i","g","n","-","o","f","f","s">>,
            <<"a","p","p","r","o","v","a","l","s"," ","r","e","q","u","i","r","e","d">>,
            <<"b","y"," ","t","h","e"," ","b","o","o","k">>,
            <<"s","o","p","s">>,
            <<"p","r","o","t","o","c","o","l","s">>,
            <<"c","h","e","c","k","l","i","s","t","s">>,
            <<"a","u","d","i","t","s">>,
            <<"r","i","s","k","-","a","v","e","r","s","e">>,
            <<"c","a","u","t","i","o","u","s">>,
            <<"m","e","t","h","o","d","i","c","a","l">>,
            <<"s","t","r","u","c","t","u","r","e","d"," ","p","r","o","c","e","s","s">>,
            <<"p","r","o","c","e","s","s","-","d","r","i","v","e","n">>,
            <<"p","r","o","c","e","s","s","-","f","o","c","u","s","e","d">>,
            <<"p","r","o","c","e","d","u","r","a","l">>,
            <<"f","o","r","m","a","l"," ","p","r","o","c","e","s","s">>
        >>,
        \* results_oriented
        <<
            <<"o","u","t","c","o","m","e","s">>,
            <<"t","a","r","g","e","t","s">>,
            <<"g","o","a","l","s">>,
            <<"p","e","r","f","o","r","m","a","n","c","e","-","d","r","i","v","e","n">>,
            <<"r","e","s","u","l","t","s"," ","m","a","t","t","e","r">>,
            <<"d","e","l","i","v","e","r","y">>,
            <<"i","m","p","a","c","t">>,
            <<"a","c","h","i","e","v","i","n","g"," ","o","b","j","e","c","t","i","v","e","s">>,
            <<"b","o","t","t","o","m"," ","l","i","n","e">>,
            <<"m","o","v","e"," ","f","a","s","t">>,
            <<"b","i","a","s"," ","f","o","r"," ","a","c","t","i","o","n">>,
            <<"g","e","t"," ","t","h","i","n","g","s"," ","d","o","n","e">>,
            <<"e","n","t","r","e","p","r","e","n","e","u","r","i","a","l">>,
            <<"a","c","c","o","u","n","t","a","b","i","l","i","t","y">>,
            <<"o","w","n","e","r","s","h","i","p">>,
            <<"m","a","k","e"," ","i","t"," ","h","a","p","p","e","n">>,
            <<"r","e","s","u","l","t","s"," ","s","p","e","a","k">>,
            <<"r","e","s","u","l","t","s","-","o","r","i","e","n","t","e","d">>,
            <<"o","u","t","c","o","m","e","-","f","o","c","u","s","e","d">>,
            <<"p","e","r","f","o","r","m","a","n","c","e"," ","m","e","t","r","i","c","s">>,
            <<"d","e","l","i","v","e","r","i","n","g"," ","r","e","s","u","l","t","s">>
        >> >>,
      job_employee |-> <<
        \* job_oriented
        <<
            <<"t","a","s","k"," ","c","o","m","p","l","e","t","i","o","n">>,
            <<"t","a","s","k","-","f","o","c","u","s","e","d">>,
            <<"j","o","b","-","f","o","c","u","s","e","d">>,
            <<"w","o","r","k","-","f","o","c","u","s","e","d">>,
            <<"e","f","f","i","c","i","e","n","c","y">>,
            <<"p","r","o","d","u","c","t","i","v","i","t","y">>,
            <<"o","u","t","p","u","t">>,
            <<"d","e","l","i","v","e","r","a","b","l","e","s">>,
            <<"g","e","t"," ","t","h","e"," ","j","o","b"," ","d","o","n","e">>,
            <<"f","o","c","u","s"," ","o","n"," ","w","o","r","k">>,
            <<"w","o","r","k"," ","f","i","r","s","t">>,
            <<"t","a","s","k"," ","o","r","i","e","n","t","e","d">>
        >>,
        \* employee_oriented
        <<
            <<"e","m","p","l","o","y","e","e"," ","w","e","l","l","b","e","i","n","g">>,
            <<"w","o","r","k","-","l","i","f","e"," ","b","a","l","a","n","c","e">>,
            <<"e","m","p","l","o","y","e","e"," ","s","a","t","i","s","f","a","c","t","i","o","n">>,
            <<"e","m","p","l","o","y","e","e"," ","d","e","v","e","l","o","p","m","e","n","t">>,
            <<"e","m","p","l","o","y","e","e"," ","g","r","o","w","t","h">>,
            <<"c","a","r","i","n","g">>,
            <<"s","u","p","p","o","r","t","i","v","e">>,
            <<"f","a","m","i","l","y","-","f","r","i","e","n","d","l","y">>,
            <<"p","e","r","s","o","n","a","l"," ","d","e","v","e","l","o","p","m","e","n","t">>,
            <<"e","m","p","l","o","y","e","e"," ","f","i","r","s","t">>,
            <<"w","e","l","l","b","e","i","n","g">>,
            <<"p","e","o","p","l","e","-","f","o","c","u","s","e","d">>,
            <<"e","m","p","l","o","y","e","e","-","c","e","n","t","r","i","c">>,
            <<"h","u","m","a","n","-","c","e","n","t","e","r","e","d">>
        >> >>,
      professional_parochial |-> <<
        \* professional
        <<
            <<"p","r","o","f","e","s","s","i","o","n","a","l">>,
            <<"i","n","d","u","s","t","r","y"," ","e","x","p","e","r","t","i","s","e">>,
            <<"t","e","c","h","n","i","c","a","l"," ","s","k","i","l","l","s">>,
            <<"s","p","e","c","i","a","l","i","s","t">>,
            <<"p","r","o","f","e","s","s","i","o","n","a","l"," ","d","e","v","e","l","o","p","m","e","n","t">>,
            <<"c","a","r","e","e","r"," ","a","d","v","a","n","c","e","m","e","n","t">>,
            <<"i","n","d","u","s","t","r","y"," ","k","n","o","w","l","e","d","g","e">>,
            <<"p","r","o","f","e","s","s","i","o","n","a","l"," ","s","t","a","n","d","a","r","d","s">>,
            <<"p","r","o","f","e","s","s","i","o","n","a","l"," ","e","t","h","i","c","s">>,
            <<"e","x","p","e","r","t">>
        >>,
        \* parochial
        <<
            <<"c","o","m","p","a","n","y"," ","c","u","l","t","u","r","e">>,
            <<"c","o","m","p","a","n","y"," ","l","o","y","a","l","t","y">>,
            <<"c","o","m","p","a","n","y"," ","v","a","l","u","e","s">>,
            <<"c","o","m","p","a","n","y"," ","f","i","r","s","t">>,
            <<"c","o","m","p","a","n","y","-","f","o","c","u","s","e","d">>,
            <<"i","n","t","e","r","n","a","l"," ","c","u","l","t","u","r","e">>,
            <<"c","o","m","p","a","n","y"," ","i","d","e","n","t","i","t","y">>,
            <<"c","o","m","p","a","n","y"," ","c","o","m","m","i","t","m","e","n","t">>,
            <<"l","o","y","a","l","t","y"," ","t","o"," ","c","o","m","p","a","n","y">>,
            <<"i","n","s","i","d","e","r">>
        >> >>,
      open_closed |-> <<
        \* open_system
        <<
            <<"d","i","v","e","r","s","e"," ","p","e","r","s","p","e","c","t","i","v","e","s">>,
            <<"e","x","t","e","r","n","a","l"," ","h","i","r","e","s">>,
            <<"n","e","w"," ","i","d","e","a","s"," ","w","e","l","c","o","m","e">>,
            <<"l","e","a","r","n","i","n","g"," ","c","u","l","t","u","r","e">>,
            <<"b","r","i","n","g"," ","i","n"," ","t","a","l","e","n","t">>,
            <<"o","u","t","s","i","d","e"," ","t","h","i","n","k","i","n","g">>,
            <<"c","o","l","l","a","b","o","r","a","t","i","v","e">>,
            <<"c","r","o","s","s","-","f","u","n","c","t","i","o","n","a","l">>,
            <<"i","n","c","l","u","s","i","v","e">>,
            <<"m","e","r","i","t","o","c","r","a","t","i","c">>,
            <<"c","h","a","l","l","e","n","g","e"," ","s","t","a","t","u","s"," ","q","u","o">>,
            <<"f","r","e","s","h"," ","p","e","r","s","p","e","c","t","i","v","e","s">>,
            <<"i","n","n","o","v","a","t","i","v","e">>,
            <<"o","p","e","n"," ","t","o"," ","c","h","a","n","g","e">>,
            <<"w","e","l","c","o","m","i","n","g">>,
            <<"o","p","e","n","-","m","i","n","d","e","d">>,
            <<"r","e","c","e","p","t","i","v","e">>
        >>,
        \* closed_system
        <<
            <<"i","n","s","i","d","e","r"," ","c","u","l","t","u","r","e">>,
            <<"o","l","d"," ","b","o","y","s"," ","n","e","t","w","o","r","k">>,
            <<"t","e","n","u","r","e"," ","m","a","t","t","e","r","s">>,
            <<"h","a","r","d"," ","t","o"," ","b","r","e","a","k"," ","i","n">>,
            <<"c","l","i","q","u","e","y">>,
            <<"p","o","l","i","t","i","c","s">>,
            <<"w","h","o"," ","y","o","u"," ","k","n","o","w">>,
            <<"n","o","t"," ","i","n","v","e","n","t","e","d"," ","h","e","r","e">>,
            <<"r","e","s","i","s","t","a","n","t"," ","t","o"," ","c","h","a","n","g","e">>,
            <<"t","r","a","d","i","t","i","o","n","a","l">>,
            <<"e","s","t","a","b","l","i","s","h","e","d"," ","w","a","y","s">>,
            <<"t","h","a","t","'","s"," ","h","o","w"," ","w","e"," ","d","o"," ","i","t">>,
            <<"o","u","t","s","i","d","e","r","s"," ","s","t","r","u","g","g","l","e">>,
            <<"i","n","s","u","l","a","r">>,
            <<"c","l","o","s","e","d","-","m","i","n","d","e","d">>,
            <<"r","e","s","i","s","t","a","n","t">>,
            <<"e","x","c","l","u","s","i","v","e">>
        >> >>,
      tight_loose |-> <<
        \* tight_control
        <<
            <<"h","i","e","r","a","r","c","h","y">>,
            <<"c","h","a","i","n"," ","o","f"," ","c","o","m","m","a","n","d">>,
            <<"f","o","r","m","a","l">>,
            <<"s","t","r","u","c","t","u","r","e","d">>,
            <<"m","i","c","r","o","m","a","n","a","g","e","m","e","n","t">>,
            <<"a","p","p","r","o","v","a","l","s">>,
            <<"s","i","g","n","-","o","f","f"," ","c","u","l","t","u","r","e">>,
            <<"b","u","r","e","a","u","c","r","a","c","y">>,
            <<"r","u","l","e","s">>,
            <<"p","o","l","i","c","i","e","s">>,
            <<"s","t","a","n","d","a","r","d","i","s","e","d">>,
            <<"c","o","m","p","l","i","a","n","c","e","-","f","o","c","u","s","e","d">>,
            <<"t","o","p","-","d","o","w","n">>,
            <<"c","o","m","m","a","n","d"," ","a","n","d"," ","c","o","n","t","r","o","l">>,
            <<"r","i","g","i","d">>,
            <<"s","t","r","i","c","t">>,
            <<"h","i","e","r","a","r","c","h","i","c","a","l">>,
            <<"f","o","r","m","a","l"," ","s","t","r","u","c","t","u","r","e">>,
            <<"c","o","n","t","r","o","l">>,
            <<"o","v","e","r","s","i","g","h","t">>
        >>,
        \* loose_control
        <<
            <<"a","u","t","o","n","o","m","y">>,
            <<"e","m","p","o","w","e","r","m","e","n","t">>,
            <<"t","r","u","s","t">>,
            <<"s","e","l","f","-","d","i","r","e","c","t","e","d">>,
            <<"f","l","a","t"," ","s","t","r","u","c","t","u","r","e">>,
            <<"f","l","e","x","i","b","l","e">>,
            <<"a","g","i","l","e">>,
            <<"s","t","a","r","t","u","p"," ","c","u","l","t","u","r","e">>,
            <<"f","r","e","e","d","o","m">>,
            <<"i","n","d","e","p","e","n","d","e","n","t">>,
            <<"o","w","n","e","r","s","h","i","p">>,
            <<"e","n","t","r","e","p","r","e","n","e","u","r","i","a","l">>,
            <<"m","i","n","i","m","a","l"," ","b","u","r","e","a","u","c","r","a","c","y">>,
            <<"f","a","s","t"," ","d","e","c","i","s","i","o","n","s">>,
            <<"b","o","t","t","o","m","-","u","p">>,
            <<"d","e","c","e","n","t","r","a","l","i","s","e","d">>,
            <<"a","u","t","o","n","o","m","o","u","s">>,
            <<"f","l","e","x","i","b","l","e">>,
            <<"e","m","p","o","w","e","r","e","d">>,
            <<"s","e","l","f","-","m","a","n","a","g","i","n","g">>
        >> >>,
      pragmatic_normative |-> <<
        \* pragmatic
        <<
            <<"r","e","s","u","l","t","s","-","o","v","e","r","-","r","u","l","e","s">>,
            <<"p","r","a","g","m","a","t","i","c">>,
            <<"p","r","a","c","t","i","c","a","l">>,
            <<"m","a","r","k","e","t","-","d","r","i","v","e","n">>,
            <<"c","u","s","t","o","m","e","r","-","f","o","c","u","s","e","d">>,
            <<"f","l","e","x","i","b","l","e">>,
            <<"a","d","a","p","t","a","b","l","e">>,
            <<"r","e","a","l","i","s","t","i","c">>,
            <<"b","u","s","i","n","e","s","s","-","f","o","c","u","s","e","d">>,
            <<"p","r","o","f","i","t","-","d","r","i","v","e","n">>,
            <<"b","o","t","t","o","m"," ","l","i","n","e">>,
            <<"e","f","f","i","c","i","e","n","c","y">>
        >>,
        \* normative
        <<
            <<"v","a","l","u","e","s","-","d","r","i","v","e","n">>,
            <<"p","r","i","n","c","i","p","l","e","-","a","d","h","e","r","e","n","c","e">>,
            <<"e","t","h","i","c","a","l">>,
            <<"i","n","t","e","g","r","i","t","y">>,
            <<"m","i","s","s","i","o","n","-","d","r","i","v","e","n">>,
            <<"p","u","r","p","o","s","e","-","d","r","i","v","e","n">>,
            <<"v","a","l","u","e","s","-","b","a","s","e","d">>,
            <<"p","r","i","n","c","i","p","l","e","d">>,
            <<"m","o","r","a","l">>,
            <<"e","t","h","i","c","a","l"," ","s","t","a","n","d","a","r","d","s">>,
            <<"d","o","i","n","g"," ","t","h","e"," ","r","i","g","h","t"," ","t","h","i","n","g">>,
            <<"v","a","l","u","e","s"," ","m","a","t","t","e","r">>
        >> >> ]

MIT_BIG_9_KEYWORDS ==
    [ agility |-> <<
            <<"a","g","i","l","e">>,
            <<"f","a","s","t">>,
            <<"q","u","i","c","k">>,
            <<"r","e","s","p","o","n","s","i","v","e">>,
            <<"a","d","a","p","t","a","b","l","e">>,
            <<"f","l","e","x","i","b","l","e">>,
            <<"s","p","e","e","d">>,
            <<"n","i","m","b","l","e">>,
            <<"r","a","p","i","d">>,
            <<"s","w","i","f","t">>,
            <<"q","u","i","c","k"," ","t","o"," ","a","d","a","p","t">>,
            <<"q","u","i","c","k"," ","r","e","s","p","o","n","s","e">>,
            <<"a","b","i","l","i","t","y"," ","t","o"," ","c","h","a","n","g","e">>,
            <<"q","u","i","c","k"," ","d","e","c","i","s","i","o","n">>,
            <<"f","a","s","t"," ","m","o","v","i","n","g">>,
            <<"d","y","n","a","m","i","c">>
        >>,
      collaboration |-> <<
            <<"c","o","l","l","a","b","o","r","a","t","i","v","e">>,
            <<"t","e","a","m","w","o","r","k">>,
            <<"t","e","a","m">>,
            <<"c","o","o","p","e","r","a","t","i","o","n">>,
            <<"c","r","o","s","s","-","f","u","n","c","t","i","o","n","a","l">>,
            <<"w","o","r","k","i","n","g"," ","t","o","g","e","t","h","e","r">>,
            <<"t","e","a","m"," ","p","l","a","y","e","r">>,
            <<"c","o","l","l","a","b","o","r","a","t","i","v","e"," ","c","u","l","t","u","r","e">>,
            <<"c","o","o","p","e","r","a","t","i","o","n">>,
            <<"c","o","m","m","u","n","i","c","a","t","e">>,
            <<"t","o","g","e","t","h","e","r">>,
            <<"p","a","r","t","n","e","r","s","h","i","p">>,
            <<"c","o","l","l","e","c","t","i","v","e">>,
            <<"u","n","i","f","i","e","d">>
        >>,
      customer_orientation |-> <<
            <<"c","u","s","t","o","m","e","r">>,
            <<"c","l","i","e","n","t">>,
            <<"c","u","s","t","o","m","e","r","-","f","o","c","u","s","e","d">>,
            <<"c","u","s","t","o","m","e","r","-","c","e","n","t","r","i","c">>,
            <<"c","u","s","t","o","m","e","r"," ","f","i","r","s","t">>,
            <<"c","u","s","t","o","m","e","r"," ","s","a","t","i","s","f","a","c","t","i","o","n">>,
            <<"c","u","s","t","o","m","e","r"," ","n","e","e","d","s">>,
            <<"c","u","s","t","o","m","e","r"," ","s","e","r","v","i","c","e">>,
            <<"c","u","s","t","o","m","e","r","-","o","r","i","e","n","t","e","d">>,
            <<"f","o","c","u","s"," ","o","n"," ","c","u","s","t","o","m","e","r","s">>,
            <<"c","u","s","t","o","m","e","r","-","d","r","i","v","e","n">>,
            <<"c","u","s","t","o","m","e","r"," ","e","x","p","e","r","i","e","n","c","e">>
        >>,
      diversity |-> <<
            <<"d","i","v","e","r","s","e">>,
            <<"d","i","v","e","r","s","i","t","y">>,
            <<"i","n","c","l","u","s","i","v","e">>,
            <<"i","n","c","l","u","s","i","o","n">>,
            <<"d","i","f","f","e","r","e","n","t"," ","b","a","c","k","g","r","o","u","n","d","s">>,
            <<"v","a","r","i","e","d">>,
            <<"m","u","l","t","i","c","u","l","t","u","r","a","l">>,
            <<"e","q","u","a","l"," ","o","p","p","o","r","t","u","n","i","t","y">>,
            <<"r","e","p","r","e","s","e","n","t","a","t","i","o","n">>,
            <<"d","i","f","f","e","r","e","n","t"," ","p","e","r","s","p","e","c","t","i","v","e","s">>,
            <<"i","n","c","l","u","s","i","v","e"," ","e","n","v","i","r","o","n","m","e","n","t">>,
            <<"w","e","l","c","o","m","i","n","g">>
        >>,
      execution |-> <<
            <<"e","x","e","c","u","t","i","o","n">>,
            <<"d","e","l","i","v","e","r">>,
            <<"d","e","l","i","v","e","r","y">>,
            <<"e","x","e","c","u","t","e">>,
            <<"g","e","t"," ","t","h","i","n","g","s"," ","d","o","n","e">>,
            <<"d","e","l","i","v","e","r"," ","o","n"," ","c","o","m","m","i","t","m","e","n","t","s">>,
            <<"f","o","l","l","o","w"," ","t","h","r","o","u","g","h">>,
            <<"a","c","c","o","u","n","t","a","b","i","l","i","t","y">>,
            <<"e","x","e","c","u","t","i","o","n"," ","e","x","c","e","l","l","e","n","c","e">>,
            <<"d","e","l","i","v","e","r"," ","r","e","s","u","l","t","s">>,
            <<"e","x","e","c","u","t","i","o","n"," ","f","o","c","u","s","e","d">>
        >>,
      innovation |-> <<
            <<"i","n","n","o","v","a","t","i","o","n">>,
            <<"i","n","n","o","v","a","t","i","v","e">>,
            <<"c","r","e","a","t","i","v","e">>,
            <<"c","r","e","a","t","i","v","i","t","y">>,
            <<"n","e","w"," ","i","d","e","a","s">>,
            <<"n","e","w"," ","p","r","o","d","u","c","t","s">>,
            <<"e","x","p","e","r","i","m","e","n","t","a","l">>,
            <<"f","o","r","w","a","r","d","-","t","h","i","n","k","i","n","g">>,
            <<"c","u","t","t","i","n","g","-","e","d","g","e">>,
            <<"t","h","i","n","k"," ","o","u","t","s","i","d","e"," ","t","h","e"," ","b","o","x">>,
            <<"b","r","e","a","k","t","h","r","o","u","g","h">>,
            <<"p","i","o","n","e","e","r","i","n","g">>,
            <<"n","o","v","e","l">>
        >>,
      integrity |-> <<
            <<"i","n","t","e","g","r","i","t","y">>,
            <<"e","t","h","i","c","a","l">>,
            <<"h","o","n","e","s","t">>,
            <<"h","o","n","e","s","t","y">>,
            <<"t","r","u","s","t","w","o","r","t","h","y">>,
            <<"t","r","u","s","t">>,
            <<"t","r","a","n","s","p","a","r","e","n","t">>,
            <<"t","r","a","n","s","p","a","r","e","n","c","y">>,
            <<"a","u","t","h","e","n","t","i","c">>,
            <<"a","u","t","h","e","n","t","i","c"," ","c","u","l","t","u","r","e">>,
            <<"d","o","i","n","g"," ","t","h","e"," ","r","i","g","h","t"," ","t","h","i","n","g">>,
            <<"e","t","h","i","c","a","l"," ","b","e","h","a","v","i","o","r">>,
            <<"m","o","r","a","l">>
        >>,
      performance |-> <<
            <<"p","e","r","f","o","r","m","a","n","c","e">>,
            <<"m","e","r","i","t","o","c","r","a","c","y">>,
            <<"m","e","r","i","t","-","b","a","s","e","d">>,
            <<"h","i","g","h"," ","p","e","r","f","o","r","m","e","r","s">>,
            <<"p","e","r","f","o","r","m","a","n","c","e","-","d","r","i","v","e","n">>,
            <<"a","c","c","o","u","n","t","a","b","i","l","i","t","y">>,
            <<"r","e","s","u","l","t","s","-","o","r","i","e","n","t","e","d">>,
            <<"p","e","r","f","o","r","m","a","n","c","e"," ","c","u","l","t","u","r","e">>,
            <<"h","i","g","h"," ","s","t","a","n","d","a","r","d","s">>,
            <<"e","x","c","e","l","l","e","n","c","e">>,
            <<"h","i","g","h"," ","b","a","r">>
        >>,
      respect |-> <<
            <<"r","e","s","p","e","c","t">>,
            <<"r","e","s","p","e","c","t","f","u","l">>,
            <<"d","i","g","n","i","t","y">>,
            <<"c","o","n","s","i","d","e","r","a","t","i","o","n">>,
            <<"v","a","l","u","e","d">>,
            <<"p","s","y","c","h","o","l","o","g","i","c","a","l"," ","s","a","f","e","t","y">>,
            <<"s","a","f","e">>,
            <<"s","u","p","p","o","r","t","i","v","e">>,
            <<"c","a","r","i","n","g">>,
            <<"t","r","e","a","t"," ","p","e","o","p","l","e"," ","w","e","l","l">>,
            <<"r","e","s","p","e","c","t"," ","f","o","r"," ","p","e","o","p","l","e">>,
            <<"h","u","m","a","n"," ","d","i","g","n","i","t","y">>
        >> ]

HofstedeDims == DOMAIN HOFSTEDE_DIMENSIONS
MitDims == DOMAIN MIT_BIG_9_KEYWORDS

----------------------------------------------------------------------------
(* culture_scoring.py: score_review_with_dictionary *)

UpperCase == <<"A","B","C","D","E","F","G","H","I","J","K","L","M",
               "N","O","P","Q","R","S","T","U","V","W","X","Y","Z">>
LowerCase == <<"a","b","c","d","e","f","g","h","i","j","k","l","m",
               "n","o","p","q","r","s","t","u","v","w","x","y","z">>

\* str.lower(), character by character.
lower(chars) ==
    [i \in 1..Len(chars) |->
        IF \E k \in 1..26 : UpperCase[k] = chars[i]
        THEN LowerCase[CHOOSE k \in 1..26 : UpperCase[k] = chars[i]]
        ELSE chars[i]]

Letters == {LowerCase[k] : k \in 1..26}

\* Mutant of phrase_in: whole-word matching instead of substring containment.
phrase_in_words(phrase, text) ==
    \E i \in 0..(Len(text) - Len(phrase)) :
        /\ \A j \in 1..Len(phrase) : text[i + j] = phrase[j]
        /\ i > 0 => text[i] \notin Letters
        /\ i + Len(phrase) < Len(text) => text[i + Len(phrase) + 1] \notin Letters

\* Python's "phrase in text" on strings: substring containment.
phrase_in(phrase, text) ==
    \E i \in 0..(Len(text) - Len(phrase)) :
        \A j \in 1..Len(phrase) : text[i + j] = phrase[j]

\* sum(1 for phrase in phrases if phrase in text_lower): one per list entry.
keyword_count(phrases, text_lower) ==
    Cardinality({k \in 1..Len(phrases) : phrase_in(phrases[k], text_lower)})

\* Mutant of hofstede_score: the poles subtracted the other way round.
hofstede_score_swapped(dimension, text_lower) ==
    LET poles == HOFSTEDE_DIMENSIONS[dimension]
        pole_a_count == keyword_count(poles[1], text_lower)
        pole_b_count == keyword_count(poles[2], text_lower)
        total_evidence == pole_a_count + pole_b_count
        score == IF total_evidence = 0 THEN None
                 ELSE Rat(pole_a_count - pole_b_count, total_evidence)
    IN [score |-> score,
        confidence |-> IF score # None THEN "medium" ELSE "low",
        evidence_count |-> total_evidence]

hofstede_score(dimension, text_lower) ==
    LET poles == HOFSTEDE_DIMENSIONS[dimension]
        pole_a_count == keyword_count(poles[1], text_lower)
        pole_b_count == keyword_count(poles[2], text_lower)
        total_evidence == pole_a_count + pole_b_count
        score == IF total_evidence = 0 THEN None
                 ELSE Rat(pole_b_count - pole_a_count, total_evidence)
    IN [score |-> score,
        confidence |-> IF score # None THEN "medium" ELSE "low",
        evidence_count |-> total_evidence]

\* Mutant of mit_score: the score is not capped at 10.
mit_score_uncapped(dimension, text_lower) ==
    LET count == keyword_count(MIT_BIG_9_KEYWORDS[dimension], text_lower)
        score == IF count > 0 THEN count * 2 ELSE 0
    IN [score |-> score,
        confidence |-> IF score > 0 THEN "medium" ELSE "low",
        evidence_count |-> count]

mit_score(dimension, text_lower) ==
    LET count == keyword_count(MIT_BIG_9_KEYWORDS[dimension], text_lower)
        score == IF count > 0 THEN Min(10, count * 2) ELSE 0
    IN [score |-> score,
        confidence |-> IF score > 0 THEN "medium" ELSE "low",
        evidence_count |-> count]

\* Mutant of rejects_input: the isinstance test is left out.
rejects_input_falsy_only(text) == ~Truthy(text)

\* The guard "not review_text or not isinstance(review_text, str)".
rejects_input(text) == ~Truthy(text) \/ text.type # "str"

score_review_with_dictionary(text) ==
    IF rejects_input(text) THEN None
    ELSE IF text.type # "str" THEN Raised("AttributeError")  \* .lower() of a non-str
    ELSE LET text_lower == lower(text.value)
         IN [hofstede |-> [d \in HofstedeDims |-> hofstede_score(d, text_lower)],
             mit_big_9 |-> [d \in MitDims |-> mit_score(d, text_lower)],
             scoring_method |-> "dictionary"]

----------------------------------------------------------------------------
(* Review scorer: the inputs and the call *)

MaxSentences == 2

Sentences ==
    <<
        \* "very agile, very agile, collaborative teamwork"
        <<"v","e","r","y"," ","a","g","i","l","e",","," ","v","e","r","y"," ","a","g","i","l","e",","," ","c","o","l","l","a","b","o","r","a","t","i","v","e"," ","t","e","a","m","w","o","r","k">>,
        \* "Bureaucratic RED TAPE. "
        <<"B","u","r","e","a","u","c","r","a","t","i","c"," ","R","E","D"," ","T","A","P","E","."," ">>,
        \* "cooperation and flexible hours. "
        <<"c","o","o","p","e","r","a","t","i","o","n"," ","a","n","d"," ","f","l","e","x","i","b","l","e"," ","h","o","u","r","s","."," ">>,
        \* "quick to adapt, quick response, fast moving, nimble. "
        <<"q","u","i","c","k"," ","t","o"," ","a","d","a","p","t",","," ","q","u","i","c","k"," ","r","e","s","p","o","n","s","e",","," ","f","a","s","t"," ","m","o","v","i","n","g",","," ","n","i","m","b","l","e","."," ">>,
        \* "fragile but results matter. "
        <<"f","r","a","g","i","l","e"," ","b","u","t"," ","r","e","s","u","l","t","s"," ","m","a","t","t","e","r","."," ">>,
        \* "Team player, working together with integrity. "
        <<"T","e","a","m"," ","p","l","a","y","e","r",","," ","w","o","r","k","i","n","g"," ","t","o","g","e","t","h","e","r"," ","w","i","t","h"," ","i","n","t","e","g","r","i","t","y","."," ">>,
        \* "ok. "
        <<"o","k","."," ">>
    >>

\* Every text made of at most n of the sentences, in any order.
RECURSIVE Texts(_)
Texts(n) ==
    IF n = 0 THEN {<< >>}
    ELSE LET shorter == Texts(n - 1)
         IN shorter \cup {t \o Sentences[k] : t \in shorter, k \in 1..Len(Sentences)}

\* What a caller may pass: any str, or a value that is no str at all.
NonStrInputs == {None, PyInt(0), PyInt(42), PyList(<< >>), PyList(<<PyStr(Sentences[1])>>)}
ReviewInputs == {PyStr(t) : t \in Texts(MaxSentences)} \cup NonStrInputs

InitScorer ==
    /\ review_text \in ReviewInputs
    /\ scores = NotCalled
    /\ composite_call = NotCalled
    /\ composite_score = NotCalled
    /\ analyzer = "none"
    /\ culture_data = << >>
    /\ performance_data = << >>
    /\ results = NotCalled
    /\ review_culture_scores = << >>
    /\ reviews = << >>
    /\ company_metrics = NotCalled
    /\ aggregated = NotCalled
    /\ confidence_metrics = NotCalled
    /\ confidence_result = NotCalled
    /\ mit_max_values_cache = << >>
    /\ company_metrics_cache = << >>
    /\ mit_max_values = NotCalled
    /\ culture_profile = NotCalled
    /\ invalidated = FALSE
    /\ requests = << >>
    /\ company_analysis = NotCalled
    /\ scatter = NotCalled
    /\ scoring_run = NotCalled
    /\ company_culture_profiles = << >>
    /\ extraction_control = [command |-> "idle", current_company |-> None, current_sector |-> None]
    /\ extraction_queue = << >>
    /\ extractors = << >>
    /\ workers = << >>
    /\ manager_thread = << >>
    /\ control_calls = << >>

ScoreReview ==
    /\ review_text # NotCalled
    /\ scores = NotCalled
    /\ scores' = score_review_with_dictionary(review_text)
    /\ UNCHANGED <<lateVars, review_text, compositeVars, correlationVars, metricsVars, aggregateVars, confidenceVars,
                   servingVars, invalidated>>

NextScorer == ScoreReview

SpecScorer == InitScorer /\ [][NextScorer]_vars

Scored == scores # NotCalled /\ scores # None /\ ~IsRaised(scores)
text_lower == lower(review_text.value)
pole_count(d, pole) == keyword_count(HOFSTEDE_DIMENSIONS[d][pole], text_lower)

\* C5: for every non-empty text and every Hofstede dimension the scorer returns
\* evidence_count = pole_a_count + pole_b_count, score = None exactly when
\* evidence_count = 0, and otherwise score = (pole_b_count - pole_a_count) /
\* (pole_a_count + pole_b_count), which lies in [-1, 1]; a text matching only
\* "bureaucratic" and "red tape" gets process_results score -1, evidence_count 2.
C5_HofstedeScore ==
    Scored =>
        /\ \A d \in HofstedeDims :
            LET r == scores.hofstede[d]
                a == pole_count(d, 1)
                b == pole_count(d, 2)
            IN /\ r.evidence_count = a + b
               /\ (r.score = None) <=> (r.evidence_count = 0)
               /\ r.score # None =>
                    /\ r.score.num * (a + b) = (b - a) * r.score.den
                    /\ -r.score.den <= r.score.num
                    /\ r.score.num <= r.score.den
        /\ review_text = PyStr(Sentences[2]) =>
            /\ scores.hofstede.process_results.score = Rat(-1, 1)
            /\ scores.hofstede.process_results.evidence_count = 2

\* C5 witness: "Bureaucratic RED TAPE. " followed by "fragile but results
\* matter. " has been scored: two process phrases against one results phrase.
C5_Witness ==
    /\ Scored
    /\ review_text = PyStr(Sentences[2] \o Sentences[5])
    /\ scores.hofstede.process_results.evidence_count = 3
    /\ scores.hofstede.process_results.score = Rat(-1, 3)
    /\ scores.hofstede.job_employee.score = None

\* C6: for every non-empty text and every MIT dimension the scorer returns
\* evidence_count = the number of matching keywords (not clipped) and
\* score = min(10, 2 * evidence_count): 0 when nothing matches, never above 10.
C6_MitScore ==
    Scored =>
        \A d \in MitDims :
            LET r == scores.mit_big_9[d]
            IN /\ r.evidence_count = keyword_count(MIT_BIG_9_KEYWORDS[d], text_lower)
               /\ r.score = Min(10, 2 * r.evidence_count)
               /\ r.evidence_count = 0 => r.score = 0
               /\ r.score >= 0 /\ r.score <= 10

\* C6 witness: six or more agility keywords matched, the score capped at 10.
C6_Witness ==
    /\ Scored
    /\ scores.mit_big_9.agility.evidence_count >= 6
    /\ scores.mit_big_9.agility.score = 10
    /\ scores.mit_big_9.respect.score = 0

\* The distinct phrases of a keyword list that occur in the text.
distinct_matches(phrases, text) ==
    {phrases[k] : k \in {k \in 1..Len(phrases) : phrase_in(phrases[k], text)}}

\* C7: the keyword count of a dimension (or pole) equals the number of DISTINCT
\* keyword phrases of that dimension (or pole) that occur as a substring of the
\* lower-cased text; no matched phrase is counted more than once.
C7_DistinctPhrases ==
    Scored =>
        /\ \A d \in MitDims :
            scores.mit_big_9[d].evidence_count =
                Cardinality(distinct_matches(MIT_BIG_9_KEYWORDS[d], text_lower))
        /\ \A d \in HofstedeDims :
            scores.hofstede[d].evidence_count =
                Cardinality(distinct_matches(HOFSTEDE_DIMENSIONS[d][1], text_lower))
                + Cardinality(distinct_matches(HOFSTEDE_DIMENSIONS[d][2], text_lower))

\* C8 as claimed: "very agile, very agile, collaborative teamwork" scores agility
\* evidence_count 1 and score 2, collaboration evidence_count >= 2 and score 4.
C8_ScenarioAsClaimed ==
    (Scored /\ review_text = PyStr(Sentences[1])) =>
        /\ scores.mit_big_9.agility.evidence_count = 1
        /\ scores.mit_big_9.agility.score = 2
        /\ scores.mit_big_9.collaboration.evidence_count >= 2
        /\ scores.mit_big_9.collaboration.score = 4

\* C8 amended: the same text scores agility evidence_count 1 and score 2, and
\* collaboration evidence_count 3 ("collaborative", "teamwork" and "team", a
\* substring of "teamwork") and score 6.
C8_Scenario ==
    (Scored /\ review_text = PyStr(Sentences[1])) =>
        /\ scores.mit_big_9.agility.evidence_count = 1
        /\ scores.mit_big_9.agility.score = 2
        /\ scores.mit_big_9.collaboration.evidence_count = 3
        /\ scores.mit_big_9.collaboration.score = 6

\* C8 witness: the scenario text has been scored.
C8_Witness ==
    /\ Scored
    /\ review_text = PyStr(Sentences[1])
    /\ scores.mit_big_9.collaboration.evidence_count >= 2

\* C9: the scorer fails closed: for a None, empty or non-str input it returns
\* None, and it raises no exception for any input.
C9_FailsClosed ==
    scores # NotCalled =>
        /\ ~IsRaised(scores)
        /\ (review_text \in NonStrInputs \/ review_text = PyStr(<< >>)) => scores = None

\* C9 witness: a truthy non-str input (the int 42) was passed and None returned.
C9_Witness ==
    /\ review_text = PyInt(42)
    /\ scores = None

----------------------------------------------------------------------------
(* performance_analysis.py, fmp_performance.py: calculate_composite_score *)

PyDict(d) == [type |-> "dict", value |-> d]
EmptyDict == << >>

\* dict.get(key, default)
dict_get(d, key, default) == IF key \in DOMAIN d THEN d[key] ELSE default

Analyzers == {"PerformanceAnalyzer", "FMPPerformanceAnalyzer"}

\* The four blocks of calculate_composite_score, in source order: the metric
\* read, the peer_stats keys with their defaults, and the weight appended.
score_blocks(an) ==
    << [metric |-> "roe_5y_avg", mean_key |-> "roe_mean", std_key |-> "roe_std",
        default_mean |-> Rat(15, 1), default_std |-> Rat(5, 1), weight |-> Rat(30, 100)],
       IF an = "PerformanceAnalyzer"
       THEN [metric |-> "aum_cagr_5y", mean_key |-> "aum_cagr_mean",
             std_key |-> "aum_cagr_std", default_mean |-> Rat(8, 100),
             default_std |-> Rat(5, 100), weight |-> Rat(25, 100)]
       ELSE [metric |-> "revenue_growth_5y", mean_key |-> "rev_growth_mean",
             std_key |-> "rev_growth_std", default_mean |-> Rat(5, 1),
             default_std |-> Rat(10, 1), weight |-> Rat(25, 100)],
       [metric |-> "tsr_cagr_5y", mean_key |-> "tsr_mean", std_key |-> "tsr_std",
        default_mean |-> Rat(10, 1), default_std |-> Rat(15, 1), weight |-> Rat(25, 100)],
       [metric |-> "op_margin_5y_avg", mean_key |-> "margin_mean",
        std_key |-> "margin_std", default_mean |-> Rat(30, 100),
        default_std |-> Rat(10, 100), weight |-> Rat(20, 100)] >>

\* Python's x / y on numbers.
py_div(x, y) ==
    IF y.num = 0 THEN Raised("ZeroDivisionError")
    ELSE Rat(x.num * y.den, x.den * y.num)

\* Mutant of peer_std_ok: ">= 0" written for "> 0".
peer_std_ok_or_zero(peer_std) == peer_std.num >= 0

\* "if peer_std > 0:"
peer_std_ok(peer_std) == peer_std.num > 0

\* max(-2, min(2, z))
clip_z(z) == RatMax(Rat(-2, 1), RatMin(Rat(2, 1), z))

\* One block: << >> when nothing is appended, else <<[z |-> clipped z-score or
\* the exception raised, weight |-> w]>>.
score_component(block, metrics, peer_stats) ==
    IF dict_get(metrics, block.metric, None) = None THEN << >>
    ELSE LET peer_mean == dict_get(peer_stats, block.mean_key, block.default_mean)
             peer_std == dict_get(peer_stats, block.std_key, block.default_std)
         IN IF ~peer_std_ok(peer_std) THEN << >>
            ELSE LET z == py_div(RatSub(metrics[block.metric], peer_mean), peer_std)
                 IN <<[z |-> IF IsRaised(z) THEN z ELSE clip_z(z),
                       weight |-> block.weight]>>

RECURSIVE weight_sum(_)
weight_sum(components) ==
    IF components = << >> THEN Rat(0, 1)
    ELSE RatAdd(components[1].weight, weight_sum(Tail(components)))

RECURSIVE product_sum(_)
product_sum(components) ==
    IF components = << >> THEN Rat(0, 1)
    ELSE RatAdd(RatMul(components[1].z, components[1].weight),
                product_sum(Tail(components)))

\* Mutant of weighted_score: the weights are not renormalised.
weighted_score_raw(components) == product_sum(components)

\* sum(s * w for s, w in zip(score_components, weights)) / total_weight
weighted_score(components) == py_div(product_sum(components), weight_sum(components))

calculate_composite_score(an, metrics, peer_stats) ==
    IF ~Truthy(metrics) THEN None
    ELSE LET blocks == score_blocks(an)
             components ==
                 score_component(blocks[1], metrics.value, peer_stats)
                 \o score_component(blocks[2], metrics.value, peer_stats)
                 \o score_component(blocks[3], metrics.value, peer_stats)
                 \o score_component(blocks[4], metrics.value, peer_stats)
         IN IF \E k \in 1..Len(components) : IsRaised(components[k].z)
            THEN Raised("ZeroDivisionError")
            ELSE IF components = << >> THEN None
            ELSE IF weight_sum(components).num = 0 THEN None
            ELSE LET normalized_score ==
                         RatAdd(Rat(50, 1),
                                RatMul(weighted_score(components), Rat(25, 1)))
                 IN RatMax(Rat(0, 1), RatMin(Rat(100, 1), normalized_score))

----------------------------------------------------------------------------
(* Composite score: the inputs and the call *)

MaxMetricLevel == 1

\* A metric is None or one of 0, 20, 40, ...
MetricValues == {None} \cup {Rat(20 * k, 1) : k \in 0..MaxMetricLevel}

MetricKeys(an) == {score_blocks(an)[k].metric : k \in 1..4}

MetricsInputs(an) ==
    {None, PyDict(EmptyDict)}
    \cup {PyDict(m) : m \in [MetricKeys(an) -> MetricValues]}

\* peer_stats: per metric either no keys (the defaults apply), a zero std, or
\* mean 10 and std 10; and one record whose stds are all negative.
PeerChoices == {"missing", "zero_std", "custom"}

peer_stats_of(an, choice) ==
    LET blocks == score_blocks(an)
        keys == UNION {IF choice[k] = "missing" THEN {}
                       ELSE {blocks[k].mean_key, blocks[k].std_key} : k \in 1..4}
        block_of(key) == CHOOSE k \in 1..4 :
                             key \in {blocks[k].mean_key, blocks[k].std_key}
    IN [key \in keys |->
           IF key = blocks[block_of(key)].mean_key THEN Rat(10, 1)
           ELSE IF choice[block_of(key)] = "zero_std" THEN Rat(0, 1)
           ELSE Rat(10, 1)]

negative_peer_stats(an) ==
    LET blocks == score_blocks(an)
        keys == UNION {{blocks[k].mean_key, blocks[k].std_key} : k \in 1..4}
    IN [key \in keys |-> IF \E k \in 1..4 : key = blocks[k].std_key
                         THEN Rat(-5, 1) ELSE Rat(10, 1)]

PeerStatsInputs(an) ==
    {peer_stats_of(an, choice) : choice \in [1..4 -> PeerChoices]}
    \cup {negative_peer_stats(an)}

InitComposite ==
    /\ \E an \in Analyzers :
        \E m \in MetricsInputs(an), p \in PeerStatsInputs(an) :
            composite_call = [analyzer |-> an, metrics |-> m, peer_stats |-> p]
    /\ composite_score = NotCalled
    /\ review_text = NotCalled
    /\ scores = NotCalled
    /\ analyzer = "none"
    /\ culture_data = << >>
    /\ performance_data = << >>
    /\ results = NotCalled
    /\ review_culture_scores = << >>
    /\ reviews = << >>
    /\ company_metrics = NotCalled
    /\ aggregated = NotCalled
    /\ confidence_metrics = NotCalled
    /\ confidence_result = NotCalled
    /\ mit_max_values_cache = << >>
    /\ company_metrics_cache = << >>
    /\ mit_max_values = NotCalled
    /\ culture_profile = NotCalled
    /\ invalidated = FALSE
    /\ requests = << >>
    /\ company_analysis = NotCalled
    /\ scatter = NotCalled
    /\ scoring_run = NotCalled
    /\ company_culture_profiles = << >>
    /\ extraction_control = [command |-> "idle", current_company |-> None, current_sector |-> None]
    /\ extraction_queue = << >>
    /\ extractors = << >>
    /\ workers = << >>
    /\ manager_thread = << >>
    /\ control_calls = << >>

CalculateCompositeScore ==
    /\ composite_call # NotCalled
    /\ composite_score = NotCalled
    /\ composite_score' = calculate_composite_score(composite_call.analyzer,
                              composite_call.metrics, composite_call.peer_stats)
    /\ UNCHANGED <<lateVars, composite_call, scorerVars, correlationVars, metricsVars, aggregateVars, confidenceVars,
                   servingVars, invalidated>>

NextComposite == CalculateCompositeScore

SpecComposite == InitComposite /\ [][NextComposite]_vars

\* The blocks of the call whose metric is non-null and whose peer std is > 0,
\* with the z-score of each clipped to [-2, 2].
call_blocks == score_blocks(composite_call.analyzer)
call_value(k) ==
    IF Truthy(composite_call.metrics)
    THEN dict_get(composite_call.metrics.value, call_blocks[k].metric, None)
    ELSE None
call_mean(k) ==
    dict_get(composite_call.peer_stats, call_blocks[k].mean_key, call_blocks[k].default_mean)
call_std(k) ==
    dict_get(composite_call.peer_stats, call_blocks[k].std_key, call_blocks[k].default_std)
call_present == {k \in 1..4 : call_value(k) # None /\ call_std(k).num > 0}
call_z(k) ==
    LET d == RatSub(call_value(k), call_mean(k))
        z == Rat(d.num * call_std(k).den, d.den * call_std(k).num)
    IN IF RatLess(Rat(2, 1), z) THEN Rat(2, 1)
       ELSE IF RatLess(z, Rat(-2, 1)) THEN Rat(-2, 1) ELSE z

\* C1: for every metrics record and every peer_stats record (std <= 0 entries
\* and missing keys included) calculate_composite_score of either analyzer
\* returns None or a number in [0, 100].
C1_CompositeBounded ==
    composite_score # NotCalled =>
        \/ composite_score = None
        \/ /\ IsNum(composite_score)
           /\ RatLeq(Rat(0, 1), composite_score)
           /\ RatLeq(composite_score, Rat(100, 1))

\* C1 witness: the FMP analyzer returned the upper end, 100, for a call whose
\* peer_stats holds a std of 0 and lacks other keys.
C1_Witness ==
    /\ composite_score = Rat(100, 1)
    /\ composite_call.analyzer = "FMPPerformanceAnalyzer"
    /\ \E k \in 1..4 : call_blocks[k].std_key \notin DOMAIN composite_call.peer_stats
    /\ \E k \in 1..4 : call_value(k) # None /\ call_std(k).num = 0

\* The weights the claim names, in percent: roe, growth, tsr, margin.
claimed_weights == <<30, 25, 25, 20>>

\* C2: a metric is a component only when it is non-null and its peer std is
\* > 0; no division by zero is ever raised; the result is None exactly when no
\* component is present; the weights of the components present are
\* renormalised to sum to 1, so the unclamped score is a weighted mean of
\* 50 + 25 z over the components present with weights .30, .25, .25, .20
\* and lies between the smallest and the largest of them.
C2_Components ==
    composite_score # NotCalled =>
        /\ ~IsRaised(composite_score)
        /\ (composite_score = None) <=> (call_present = {})
        /\ composite_score # None =>
            /\ \E k \in call_present :
                RatLeq(RatAdd(Rat(50, 1), RatMul(Rat(25, 1), call_z(k))), composite_score)
            /\ \E k \in call_present :
                RatLeq(composite_score, RatAdd(Rat(50, 1), RatMul(Rat(25, 1), call_z(k))))
            /\ LET w(k) == IF k \in call_present THEN claimed_weights[k] ELSE 0
                   wz(k) == IF k \in call_present
                            THEN RatMul(Rat(claimed_weights[k], 1), call_z(k))
                            ELSE Rat(0, 1)
                   total == w(1) + w(2) + w(3) + w(4)
                   blend == RatMul(RatAdd(RatAdd(wz(1), wz(2)), RatAdd(wz(3), wz(4))),
                                   Rat(1, total))
               IN composite_score = RatAdd(Rat(50, 1), RatMul(Rat(25, 1), blend))

\* C2 witness: a metric with a non-null value and a peer std of 0 was left out,
\* and the only other metric present, alone, decided the score.
C2_Witness ==
    /\ IsNum(composite_score)
    /\ Cardinality(call_present) = 1
    /\ \E k \in 1..4 : call_value(k) # None /\ call_std(k).num = 0
    /\ \E k \in call_present :
        /\ call_z(k) = Rat(1, 1)
        /\ composite_score = Rat(75, 1)

----------------------------------------------------------------------------
(* performance_analysis.py, fmp_performance.py: calculate_correlation *)

culture_dimensions ==
    <<"process_results", "job_employee", "professional_parochial",
      "open_closed", "tight_loose", "pragmatic_normative">>

mit_dimensions ==
    <<"agility", "collaboration", "customer_orientation", "diversity",
      "execution", "innovation", "integrity", "performance", "respect">>

performance_metrics(an) ==
    IF an = "PerformanceAnalyzer"
    THEN <<"roe_5y_avg", "aum_cagr_5y", "tsr_cagr_5y", "op_margin_5y_avg", "composite_score">>
    ELSE <<"roe_5y_avg", "revenue_growth_5y", "tsr_cagr_5y", "op_margin_5y_avg",
           "composite_score">>

Range(seq) == {seq[i] : i \in 1..Len(seq)}

RECURSIVE RatSum(_)
RatSum(seq) == IF seq = << >> THEN Rat(0, 1) ELSE RatAdd(seq[1], RatSum(Tail(seq)))

NaN == [type |-> "nan"]

\* scipy.stats.pearsonr: r = sxy / sqrt(sxx * syy), kept exactly as its sign and
\* its square; nan (with a warning, no exception) when x or y is constant.
pearsonr(x_vals, y_vals) ==
    LET n == Rat(Len(x_vals), 1)
        idx == 1..Len(x_vals)
        sum_x == RatSum(x_vals)
        sum_y == RatSum(y_vals)
        sxx == RatSub(RatMul(n, RatSum([i \in idx |-> RatMul(x_vals[i], x_vals[i])])),
                      RatMul(sum_x, sum_x))
        syy == RatSub(RatMul(n, RatSum([i \in idx |-> RatMul(y_vals[i], y_vals[i])])),
                      RatMul(sum_y, sum_y))
        sxy == RatSub(RatMul(n, RatSum([i \in idx |-> RatMul(x_vals[i], y_vals[i])])),
                      RatMul(sum_x, sum_y))
    IN IF sxx.num = 0 \/ syy.num = 0 THEN NaN
       ELSE [sign |-> IF sxy.num > 0 THEN 1 ELSE IF sxy.num < 0 THEN -1 ELSE 0,
             squared |-> RatMul(py_div(sxy, sxx), py_div(sxy, syy))]

\* company_data: the companies in the order of their first culture record; a
\* later record of the same company replaces an earlier one.
company_order(culture) ==
    LET firsts == SelectSeq([i \in 1..Len(culture) |-> i],
                      LAMBDA i : \A j \in 1..(i - 1) : culture[j].company # culture[i].company)
    IN [k \in 1..Len(firsts) |-> culture[firsts[k]].company]

last_record(data, company) ==
    data[CHOOSE i \in 1..Len(data) :
            /\ data[i].company = company
            /\ \A j \in (i + 1)..Len(data) : data[j].company # company]

has_record(data, company) == \E i \in 1..Len(data) : data[i].company = company

\* valid_companies: in company_data, with both 'culture' and 'performance'.
valid_companies(culture, performance) ==
    SelectSeq(company_order(culture), LAMBDA c : has_record(performance, c))

\* culture.get(framework, {}).get(dim, {}).get('value')
culture_value(item, framework, dim) ==
    dict_get(dict_get(dict_get(item, framework, EmptyDict), dim, EmptyDict), "value", None)

\* The companies of valid_companies, in order, whose culture value and metric
\* are both non-null.
paired_companies(culture, performance, framework, dim, metric) ==
    SelectSeq(valid_companies(culture, performance),
        LAMBDA c : /\ culture_value(last_record(culture, c), framework, dim) # None
                   /\ dict_get(last_record(performance, c), metric, None) # None)

\* Mutant of enough_samples: "> 5" written for ">= 5".
enough_samples_above(n) == n > 5

\* "if len(x_vals) >= 5:"
enough_samples(n) == n >= 5

correlation_entry(culture, performance, framework, dim, metric) ==
    LET companies == paired_companies(culture, performance, framework, dim, metric)
        x_vals == [k \in 1..Len(companies) |->
                      culture_value(last_record(culture, companies[k]), framework, dim)]
        y_vals == [k \in 1..Len(companies) |->
                      last_record(performance, companies[k])[metric]]
    IN [correlation |-> pearsonr(x_vals, y_vals), sample_size |-> Len(x_vals)]

framework_results(an, culture, performance, framework, dims) ==
    [dim \in Range(dims) |->
        [metric \in {m \in Range(performance_metrics(an)) :
                        enough_samples(Len(paired_companies(culture, performance,
                                                            framework, dim, m)))} |->
            correlation_entry(culture, performance, framework, dim, metric)]]

\* The (framework, dimension, metric) triples in the order of the loops.
correlation_pairs(an) ==
    LET metrics == performance_metrics(an)
        of(label, framework, dims) ==
            [k \in 1..(Len(dims) * Len(metrics)) |->
                [label |-> label, framework |-> framework,
                 dimension |-> dims[((k - 1) \div Len(metrics)) + 1],
                 metric |-> metrics[((k - 1) % Len(metrics)) + 1]]]
    IN of("Hofstede", "hofstede", culture_dimensions) \o of("MIT", "mit", mit_dimensions)

\* all_correlations: one record per entry of the results, in loop order, with
\* the unrounded correlation. entries is results['hofstede'] and
\* results['mit'] as the loops left them.
all_correlations(an, entries) ==
    LET kept == SelectSeq(correlation_pairs(an),
                    LAMBDA p : p.metric \in DOMAIN entries[p.framework][p.dimension])
    IN [k \in 1..Len(kept) |->
           [framework |-> kept[k].label, dimension |-> kept[k].dimension,
            metric |-> kept[k].metric,
            correlation |->
                entries[kept[k].framework][kept[k].dimension][kept[k].metric].correlation]]

\* r1 < r2 for correlations r = sign * sqrt(squared).
correlation_less(r1, r2) ==
    IF r1.sign # r2.sign THEN r1.sign < r2.sign
    ELSE IF r1.sign = 1 THEN RatLess(r1.squared, r2.squared)
    ELSE IF r1.sign = -1 THEN RatLess(r2.squared, r1.squared)
    ELSE FALSE

\* sorted(entries, key=correlation, reverse=True): descending, entries with
\* equal correlations in their original order. The entries with the largest
\* of the correlations come first, in their order, then those of the others.
RECURSIVE sorted_by(_, _)
sorted_by(entries, correlations) ==
    IF correlations = {} THEN << >>
    ELSE LET largest == CHOOSE r \in correlations :
                            \A other \in correlations : ~correlation_less(r, other)
         IN SelectSeq(entries, LAMBDA c : c.correlation = largest)
                \o sorted_by(entries, correlations \ {largest})

sorted_descending(entries) ==
    sorted_by(entries, {entries[k].correlation : k \in 1..Len(entries)})

\* What the sort of a list holding a nan gives: nan compares False with
\* everything, and the order list.sort leaves then depends on the positions
\* of the nans in ways the language does not define. The lists are carried
\* as this mark.
Unordered == [type |-> "unordered"]

\* The entries the summary ranks: PerformanceAnalyzer ranks all of
\* all_correlations, FMPPerformanceAnalyzer the entries whose metric is
\* composite_score.
ranked_entries(an, entries) ==
    IF an = "PerformanceAnalyzer" THEN entries
    ELSE SelectSeq(entries, LAMBDA c : c.metric = "composite_score")

\* sorted_corrs[:5] and sorted_corrs[-5:][::-1]
first_five(seq) == SubSeq(seq, 1, Min(5, Len(seq)))
last_five_reversed(seq) ==
    [k \in 1..Min(5, Len(seq)) |-> seq[Len(seq) + 1 - k]]

\* entries: results['hofstede'] and results['mit'] as the loops left them.
correlation_summary(an, entries, sample_size) ==
    LET all == all_correlations(an, entries)
        ranked == ranked_entries(an, all)
        sorted_corrs == IF \E k \in 1..Len(ranked) : ranked[k].correlation = NaN
                        THEN << >> ELSE sorted_descending(ranked)
    IN IF all = << >>
       THEN [strongest_positive |-> << >>, strongest_negative |-> << >>,
             sample_size |-> sample_size]
       ELSE IF \E k \in 1..Len(ranked) : ranked[k].correlation = NaN
       THEN [strongest_positive |-> Unordered, strongest_negative |-> Unordered,
             sample_size |-> sample_size]
       ELSE [strongest_positive |-> first_five(sorted_corrs),
             strongest_negative |-> last_five_reversed(sorted_corrs),
             sample_size |-> sample_size]

calculate_correlation(an, culture, performance) ==
    LET valid == valid_companies(culture, performance)
        entries == [hofstede |-> framework_results(an, culture, performance, "hofstede",
                                                   culture_dimensions),
                    mit |-> framework_results(an, culture, performance, "mit",
                                              mit_dimensions)]
    IN IF Len(valid) < 5
       THEN [hofstede |-> EmptyDict, mit |-> EmptyDict,
             summary |-> [strongest_positive |-> << >>, strongest_negative |-> << >>,
                          sample_size |-> Len(valid)]]
       ELSE [hofstede |-> entries.hofstede,
             mit |-> entries.mit,
             summary |-> correlation_summary(an, entries, Len(valid))]

----------------------------------------------------------------------------
(* app.py: the performance-correlation route collecting its two lists, and  *)
(* the call of calculate_correlation                                        *)

MaxCollected == 2

CompanyNames == <<"c1", "c2", "c3", "c4", "c5", "c6", "c7", "c8">>

\* A culture level is None or a small number; every dimension of the profile
\* carries it as its value.
CultureLevels == {None, Rat(1, 1)}

culture_item(company, level) ==
    [company |-> company,
     hofstede |-> [dim \in Range(culture_dimensions) |-> [value |-> level]],
     mit |-> [dim \in Range(mit_dimensions) |-> [value |-> level]]]

\* A performance record of level p in 1..3 puts every metric it carries
\* p - 2 default standard deviations from the default peer mean.
PerformanceShapes ==
    {[shape |-> "absent", level |-> 1], [shape |-> "roe_only", level |-> 1],
     [shape |-> "full", level |-> 1], [shape |-> "full", level |-> 3]}

metric_at(block, level) ==
    RatAdd(block.default_mean, RatMul(Rat(level - 2, 1), block.default_std))

performance_metrics_of(an, company, choice) ==
    LET blocks == score_blocks(an)
        carried == IF choice.shape = "full" THEN 1..4 ELSE {1}
        block_of(key) == CHOOSE k \in 1..4 : blocks[k].metric = key
    IN [key \in {"company"} \cup {blocks[k].metric : k \in carried} |->
           IF key = "company" THEN company
           ELSE metric_at(blocks[block_of(key)], choice.level)]

\* The route's "perf_metrics['composite_score'] = calculate_composite_score(
\* perf_metrics, peer_stats)" with the default peer statistics.
performance_item(an, company, choice) ==
    LET perf_metrics == performance_metrics_of(an, company, choice)
        composite ==
            calculate_composite_score(an,
                PyDict([key \in DOMAIN perf_metrics \ {"company"} |-> perf_metrics[key]]),
                EmptyDict)
    IN [key \in DOMAIN perf_metrics \cup {"composite_score"} |->
           IF key = "composite_score" THEN composite ELSE perf_metrics[key]]

\* The lists after the route has gone through its first three companies.
BaseDatasets ==
    {[culture |-> <<Rat(1, 1), Rat(2, 1), Rat(3, 1)>>, performance |-> <<1, 3, 2>>],
     [culture |-> <<Rat(1, 1), Rat(1, 1), Rat(1, 1)>>, performance |-> <<1, 2, 3>>],
     [culture |-> <<Rat(1, 1), Rat(2, 1), Rat(3, 1)>>, performance |-> <<1, 1, 1>>]}

InitCorrelation ==
    /\ analyzer \in Analyzers
    /\ \E base \in BaseDatasets :
        /\ culture_data = [k \in 1..3 |-> culture_item(CompanyNames[k], base.culture[k])]
        /\ performance_data =
               [k \in 1..3 |-> performance_item(analyzer, CompanyNames[k],
                                   [shape |-> "full", level |-> base.performance[k]])]
    /\ results = NotCalled
    /\ review_text = NotCalled
    /\ scores = NotCalled
    /\ composite_call = NotCalled
    /\ composite_score = NotCalled
    /\ review_culture_scores = << >>
    /\ reviews = << >>
    /\ company_metrics = NotCalled
    /\ aggregated = NotCalled
    /\ confidence_metrics = NotCalled
    /\ confidence_result = NotCalled
    /\ mit_max_values_cache = << >>
    /\ company_metrics_cache = << >>
    /\ mit_max_values = NotCalled
    /\ culture_profile = NotCalled
    /\ invalidated = FALSE
    /\ requests = << >>
    /\ company_analysis = NotCalled
    /\ scatter = NotCalled
    /\ scoring_run = NotCalled
    /\ company_culture_profiles = << >>
    /\ extraction_control = [command |-> "idle", current_company |-> None, current_sector |-> None]
    /\ extraction_queue = << >>
    /\ extractors = << >>
    /\ workers = << >>
    /\ manager_thread = << >>
    /\ control_calls = << >>

\* One turn of the route's loop over the companies: the culture record is
\* appended, and the performance record when the company has one.
CollectCompany ==
    /\ Len(culture_data) < 3 + MaxCollected
    /\ \E level \in CultureLevels, choice \in PerformanceShapes :
        LET company == CompanyNames[Len(culture_data) + 1]
        IN /\ culture_data' = Append(culture_data, culture_item(company, level))
           /\ performance_data' =
                  IF choice.shape = "absent" THEN performance_data
                  ELSE Append(performance_data,
                              performance_item(analyzer, company, choice))
    /\ results' = NotCalled
    /\ UNCHANGED <<lateVars, analyzer, scorerVars, compositeVars, metricsVars, aggregateVars, confidenceVars,
                   servingVars, invalidated>>

CalculateCorrelation ==
    /\ results = NotCalled
    /\ results' = calculate_correlation(analyzer, culture_data, performance_data)
    /\ UNCHANGED <<lateVars, analyzer, culture_data, performance_data,
                   scorerVars, compositeVars, metricsVars, aggregateVars, confidenceVars,
                   servingVars, invalidated>>

NextCorrelation == CollectCompany \/ CalculateCorrelation

SpecCorrelation == InitCorrelation /\ [][NextCorrelation]_vars

Frameworks == {"hofstede", "mit"}
framework_dims(framework) ==
    IF framework = "hofstede" THEN Range(culture_dimensions) ELSE Range(mit_dimensions)

has_entry(framework, dim, metric) ==
    /\ dim \in DOMAIN results[framework]
    /\ metric \in DOMAIN results[framework][dim]

\* The joined companies of a pair: in both lists, with a non-null culture value
\* for the dimension and a non-null value for the metric.
joined(framework, dim, metric) ==
    {c \in Range(CompanyNames) :
        /\ \E i \in 1..Len(culture_data) :
            /\ culture_data[i].company = c
            /\ culture_data[i][framework][dim].value # None
        /\ \E j \in 1..Len(performance_data) :
            /\ performance_data[j].company = c
            /\ metric \in DOMAIN performance_data[j]
            /\ performance_data[j][metric] # None}

\* C3: the result holds an entry for a (dimension, metric) pair exactly when at
\* least 5 joined companies have both a non-null culture value and a non-null
\* metric; with 4 the entry is absent, with 5 it is present with sample_size 5.
C3_EntryNeedsFive ==
    results # NotCalled =>
        \A framework \in Frameworks : \A dim \in framework_dims(framework) :
            \A metric \in Range(performance_metrics(analyzer)) :
                LET n == Cardinality(joined(framework, dim, metric))
                IN /\ has_entry(framework, dim, metric) <=> (n >= 5)
                   /\ has_entry(framework, dim, metric) =>
                        results[framework][dim][metric].sample_size = n

\* C3 witness: one result in which (open_closed, roe_5y_avg) has exactly 5
\* joined companies and an entry of sample_size 5, while (open_closed,
\* tsr_cagr_5y) has 4 joined companies and no entry.
C3_Witness ==
    /\ results # NotCalled
    /\ Cardinality(joined("hofstede", "open_closed", "roe_5y_avg")) = 5
    /\ has_entry("hofstede", "open_closed", "roe_5y_avg")
    /\ results.hofstede.open_closed.roe_5y_avg.sample_size = 5
    /\ Cardinality(joined("hofstede", "open_closed", "tsr_cagr_5y")) = 4
    /\ ~has_entry("hofstede", "open_closed", "tsr_cagr_5y")

\* The culture values, and the metric values, of the joined companies of a pair.
joined_culture(framework, dim, metric) ==
    {culture_data[i][framework][dim].value :
        i \in {i \in 1..Len(culture_data) :
                  culture_data[i].company \in joined(framework, dim, metric)}}
joined_metric(framework, dim, metric) ==
    {performance_data[j][metric] :
        j \in {j \in 1..Len(performance_data) :
                  performance_data[j].company \in joined(framework, dim, metric)}}

\* C4: when the culture values or the metric values of the joined companies of
\* a pair are constant, calculate_correlation emits no entry for the pair, even
\* with 5 or more joined companies.
C4_DegenerateExcluded ==
    results # NotCalled =>
        \A framework \in Frameworks : \A dim \in framework_dims(framework) :
            \A metric \in Range(performance_metrics(analyzer)) :
                (\/ Cardinality(joined_culture(framework, dim, metric)) <= 1
                 \/ Cardinality(joined_metric(framework, dim, metric)) <= 1)
                    => ~has_entry(framework, dim, metric)

----------------------------------------------------------------------------
(* app.py: get_company_metrics and calculate_relative_confidence;
   score_reviews.py: score_all_reviews *)

MIN_REVIEWS_FOR_HIGH_CONFIDENCE == 50
MIN_REVIEWS_FOR_MEDIUM_CONFIDENCE == 20

HOFSTEDE_DIMENSION_KEYS == Range(culture_dimensions)
MIT_DIMENSION_KEYS == Range(mit_dimensions)

RECURSIVE Pow10(_)
Pow10(n) == IF n = 0 THEN 1 ELSE 10 * Pow10(n - 1)

\* round(x, ndigits) of a number: the nearest multiple of 10^-ndigits, a tie
\* going to the even one. The float is carried as the exact quotient.
py_round(x, ndigits) ==
    LET scale == Pow10(ndigits)
        n == x.num * scale
        q == n \div x.den
        r == n - q * x.den
        k == IF 2 * r < x.den THEN q
             ELSE IF 2 * r > x.den THEN q + 1
             ELSE IF q % 2 = 0 THEN q ELSE q + 1
    IN Rat(k, scale)

\* "x or ''" of a text column
or_empty(x) == IF Truthy(x) THEN x.value ELSE << >>

\* f"{review['summary'] or ''} {review['pros'] or ''} {review['cons'] or ''}"
combined_text(review) ==
    or_empty(review.summary) \o <<" ">> \o or_empty(review.pros)
        \o <<" ">> \o or_empty(review.cons)

\* review_text.strip() is empty
strips_to_empty(text) == \A i \in 1..Len(text) : text[i] = " "

\* The row score_all_reviews inserts for one review: column
\* <dimension>_score is field <dimension>.
score_row(review, s) ==
    [column \in {"company_name"} \cup HofstedeDims \cup MitDims |->
        IF column = "company_name" THEN review.company_name
        ELSE IF column \in HofstedeDims THEN s.hofstede[column].score
        ELSE Rat(s.mit_big_9[column].score, 1)]

\* score_all_reviews: every review with a non-blank text gets a row, unless a
\* row with its review_id is already there (ON CONFLICT DO NOTHING).
score_all_reviews(review_rows, table) ==
    LET inserted == {id \in DOMAIN review_rows :
                        /\ id \notin DOMAIN table
                        /\ ~strips_to_empty(combined_text(review_rows[id]))
                        /\ score_review_with_dictionary(
                               PyStr(combined_text(review_rows[id]))) # None}
    IN [id \in DOMAIN table \cup inserted |->
           IF id \in DOMAIN table THEN table[id]
           ELSE score_row(review_rows[id],
                          score_review_with_dictionary(
                              PyStr(combined_text(review_rows[id]))))]

\* SQL over a table, WHERE company_name = company.
company_ids(table, company) == {id \in DOMAIN table : table[id].company_name = company}

\* SUM(column) over the rows ids, each distinct value taken once with the
\* number of rows holding it.
RECURSIVE sum_values(_, _, _, _)
sum_values(table, ids, column, values) ==
    IF values = {} THEN Rat(0, 1)
    ELSE LET v == CHOOSE v \in values : TRUE
             copies == Cardinality({id \in ids : table[id][column] = v})
         IN RatAdd(RatMul(Rat(copies, 1), v),
                   sum_values(table, ids, column, values \ {v}))

sum_column(table, ids, column) ==
    sum_values(table, ids, column, {table[id][column] : id \in ids})

\* AVG(column): NULL when no row has a non-null value.
sql_avg(table, company, column) ==
    LET ids == {id \in company_ids(table, company) : table[id][column] # None}
    IN IF ids = {} THEN None
       ELSE py_div(sum_column(table, ids, column), Rat(Cardinality(ids), 1))

\* COUNT(CASE WHEN column IS NOT NULL THEN 1 END)
sql_count_not_null(table, company, column) ==
    Cardinality({id \in company_ids(table, company) : table[id][column] # None})

\* Mutant of sql_count_positive: the "> 0" test is left out.
sql_count_scored(table, company, column) ==
    Cardinality({id \in company_ids(table, company) : table[id][column] # None})

\* COUNT(CASE WHEN column IS NOT NULL AND column > 0 THEN 1 END)
sql_count_positive(table, company, column) ==
    Cardinality({id \in company_ids(table, company) :
                    table[id][column] # None /\ table[id][column].num > 0})

\* Mutant of confidence_level_of: "> 50" written for ">= 50".
confidence_level_above(count) ==
    IF count > MIN_REVIEWS_FOR_HIGH_CONFIDENCE THEN "High"
    ELSE IF count >= MIN_REVIEWS_FOR_MEDIUM_CONFIDENCE THEN "Medium"
    ELSE "Low"

\* 'High' if count >= 50 else 'Medium' if count >= 20 else 'Low'
confidence_level_of(count) ==
    IF count >= MIN_REVIEWS_FOR_HIGH_CONFIDENCE THEN "High"
    ELSE IF count >= MIN_REVIEWS_FOR_MEDIUM_CONFIDENCE THEN "Medium"
    ELSE "Low"

zero_dimension ==
    [value |-> Rat(0, 1), confidence |-> 0, confidence_level |-> "Low", total_evidence |-> 0]

\* One dimension of hofstede_avg / mit_avg.
dimension_metrics(value, count, ndigits) ==
    IF value # None /\ count > 0
    THEN [value |-> py_round(value, ndigits), confidence |-> 0,
          confidence_level |-> confidence_level_of(count), total_evidence |-> count]
    ELSE zero_dimension

\* Mutant of hofstede_avg: no placeholder dimensions without score rows.
hofstede_avg_scored_only(table, company) ==
    IF company_ids(table, company) # {}
    THEN [dim \in HOFSTEDE_DIMENSION_KEYS |->
             dimension_metrics(sql_avg(table, company, dim),
                               sql_count_not_null(table, company, dim), 2)]
    ELSE << >>

hofstede_avg(table, company) ==
    IF company_ids(table, company) # {}
    THEN [dim \in HOFSTEDE_DIMENSION_KEYS |->
             dimension_metrics(sql_avg(table, company, dim),
                               sql_count_not_null(table, company, dim), 2)]
    ELSE [dim \in HOFSTEDE_DIMENSION_KEYS |-> zero_dimension]

mit_avg(table, company) ==
    IF company_ids(table, company) # {}
    THEN [dim \in MIT_DIMENSION_KEYS |->
             dimension_metrics(sql_avg(table, company, dim),
                               sql_count_positive(table, company, dim), 4)]
    ELSE [dim \in MIT_DIMENSION_KEYS |-> zero_dimension]

RECURSIVE SetMax(_)
SetMax(S) ==
    IF S = {} THEN 0
    ELSE LET x == CHOOSE x \in S : TRUE IN Max(x, SetMax(S \ {x}))

\* Mutant of with_confidence_score: no evidence is imputed.
with_confidence_score_as_counted(data, max_evidence, review_count) ==
    LET confidence_score ==
            IF max_evidence > 0
            THEN py_round(RatMul(Rat(data.total_evidence, max_evidence), Rat(100, 1)), 1)
            ELSE Rat(0, 1)
    IN [key \in DOMAIN data \cup {"confidence_score"} |->
           IF key = "confidence_score" THEN confidence_score ELSE data[key]]

\* One dimension of calculate_relative_confidence's two loops.
with_confidence_score(data, max_evidence, review_count) ==
    LET evidence == IF data.total_evidence = 0 /\ data.value # None
                    THEN Max(1, review_count \div 15)
                    ELSE data.total_evidence
        confidence_score ==
            IF max_evidence > 0
            THEN py_round(RatMul(Rat(evidence, max_evidence), Rat(100, 1)), 1)
            ELSE Rat(0, 1)
    IN [key \in DOMAIN data \cup {"confidence_score"} |->
           IF key = "confidence_score" THEN confidence_score ELSE data[key]]

calculate_relative_confidence(m) ==
    LET found == SetMax({m.hofstede[d].total_evidence : d \in DOMAIN m.hofstede}
                        \cup {m.mit_big_9[d].total_evidence : d \in DOMAIN m.mit_big_9})
        review_count == m.total_reviews
        max_evidence == IF found = 0 THEN review_count * 5 ELSE found
    IN IF found = 0 /\ review_count <= 0 THEN m
       ELSE [m EXCEPT
               !.hofstede = [d \in DOMAIN m.hofstede |->
                   with_confidence_score(m.hofstede[d], max_evidence, review_count)],
               !.mit_big_9 = [d \in DOMAIN m.mit_big_9 |->
                   with_confidence_score(m.mit_big_9[d], max_evidence, review_count)]]

\* The rating averages of the returned record are computed from the rating
\* columns of the reviews rows alone and are not carried here.
get_company_metrics(db_connected, review_rows, table, company) ==
    LET review_count == Cardinality(company_ids(review_rows, company))
    IN IF ~db_connected THEN None
       ELSE IF review_count = 0 THEN None
       ELSE calculate_relative_confidence(
                [company_name |-> company,
                 total_reviews |-> review_count,
                 hofstede |-> hofstede_avg(table, company),
                 mit_big_9 |-> mit_avg(table, company)])

----------------------------------------------------------------------------
(* Company metrics: the database and the calls *)

MaxNewReviews == 2

MetricsCompanies == {"c1", "c2"}

\* What an extracted review carries in its summary column.
ReviewSummaries == {None, PyStr(Sentences[1])}

review_row(company, summary) ==
    [company_name |-> company, summary |-> summary, pros |-> None, cons |-> None]

\* Reviews loaded and scored before the first step: n1 reviews of company c1
\* with the first sentence, then n2 with the second. n1 stops one short of a
\* confidence threshold, so that the next saved review crosses it.
BaseCounts ==
    {<<0, 0>>,
     <<MIN_REVIEWS_FOR_MEDIUM_CONFIDENCE - 1, 0>>,
     <<MIN_REVIEWS_FOR_HIGH_CONFIDENCE - 1, MIN_REVIEWS_FOR_MEDIUM_CONFIDENCE>>}

base_reviews(n) ==
    [id \in 1..(n[1] + n[2]) |->
        review_row("c1", PyStr(Sentences[IF id <= n[1] THEN 1 ELSE 2]))]

base_score_rows ==
    [k \in {1, 2} |->
        score_row(review_row("c1", PyStr(Sentences[k])),
                  score_review_with_dictionary(
                      PyStr(combined_text(review_row("c1", PyStr(Sentences[k]))))))]

base_scores(n) ==
    [id \in 1..(n[1] + n[2]) |-> base_score_rows[IF id <= n[1] THEN 1 ELSE 2]]

\* Reviews saved since the first step.
new_reviews(review_rows) ==
    Len(review_rows)
        - SetMax({n[1] + n[2] : n \in {m \in BaseCounts : m[1] + m[2] <= Len(review_rows)}})

InitMetrics ==
    /\ \E n \in BaseCounts :
          /\ reviews = base_reviews(n)
          /\ review_culture_scores = base_scores(n)
    /\ company_metrics = NotCalled
    /\ review_text = NotCalled
    /\ scores = NotCalled
    /\ composite_call = NotCalled
    /\ composite_score = NotCalled
    /\ analyzer = "none"
    /\ culture_data = << >>
    /\ performance_data = << >>
    /\ results = NotCalled
    /\ aggregated = NotCalled
    /\ confidence_metrics = NotCalled
    /\ confidence_result = NotCalled
    /\ mit_max_values_cache = << >>
    /\ company_metrics_cache = << >>
    /\ mit_max_values = NotCalled
    /\ culture_profile = NotCalled
    /\ invalidated = FALSE
    /\ requests = << >>
    /\ company_analysis = NotCalled
    /\ scatter = NotCalled
    /\ scoring_run = NotCalled
    /\ company_culture_profiles = << >>
    /\ extraction_control = [command |-> "idle", current_company |-> None, current_sector |-> None]
    /\ extraction_queue = << >>
    /\ extractors = << >>
    /\ workers = << >>
    /\ manager_thread = << >>
    /\ control_calls = << >>

\* extraction_worker: one INSERT INTO reviews
SaveReview ==
    /\ new_reviews(reviews) < MaxNewReviews
    /\ \E company \in MetricsCompanies, summary \in ReviewSummaries :
          reviews' = Append(reviews, review_row(company, summary))
    /\ company_metrics' = NotCalled
    /\ UNCHANGED <<lateVars, review_culture_scores, scorerVars, compositeVars, correlationVars, aggregateVars, confidenceVars,
                   servingVars, invalidated>>

ScoreAllReviews ==
    /\ review_culture_scores' = score_all_reviews(reviews, review_culture_scores)
    /\ review_culture_scores' # review_culture_scores
    /\ company_metrics' = NotCalled
    /\ invalidated' = FALSE
    /\ UNCHANGED <<lateVars, reviews, scorerVars, compositeVars, correlationVars, aggregateVars,
                   confidenceVars, servingVars>>

GetCompanyMetrics ==
    /\ company_metrics = NotCalled
    /\ \E company \in MetricsCompanies, db_connected \in BOOLEAN :
          company_metrics' = [company_name |-> company,
                              db_connected |-> db_connected,
                              result |-> get_company_metrics(db_connected, reviews,
                                                        review_culture_scores, company)]
    /\ UNCHANGED <<lateVars, reviews, review_culture_scores, scorerVars, compositeVars, correlationVars, aggregateVars, confidenceVars,
                   servingVars, invalidated>>

NextMetrics == SaveReview \/ ScoreAllReviews \/ GetCompanyMetrics

SpecMetrics == InitMetrics /\ [][NextMetrics]_vars

\* The last call returned a profile.
returned_profile == company_metrics # NotCalled /\ company_metrics.result # None

profile_dimensions ==
    {<<"hofstede", d>> : d \in HOFSTEDE_DIMENSION_KEYS}
        \cup {<<"mit_big_9", d>> : d \in MIT_DIMENSION_KEYS}

profile_entry(fd) == company_metrics.result[fd[1]][fd[2]]

\* C10: in every profile get_company_metrics returns, each Hofstede and MIT
\* dimension's confidence_level is the step function of its total_evidence:
\* 'High' iff total_evidence >= 50, 'Medium' iff 20 <= total_evidence < 50,
\* 'Low' iff total_evidence < 20.
C10_ConfidenceStep ==
    returned_profile =>
        \A fd \in profile_dimensions :
            LET e == profile_entry(fd).total_evidence
                level == profile_entry(fd).confidence_level
            IN /\ level \in {"High", "Medium", "Low"}
               /\ level = "High" <=> e >= 50
               /\ level = "Medium" <=> (e >= 20 /\ e < 50)
               /\ level = "Low" <=> e < 20

\* A profile with a dimension at exactly 50 ('High'), one at exactly 20
\* ('Medium') and one without evidence ('Low').
C10_Witness ==
    /\ returned_profile
    /\ \E fd \in profile_dimensions :
          profile_entry(fd).total_evidence = 50 /\ profile_entry(fd).confidence_level = "High"
    /\ \E fd \in profile_dimensions :
          profile_entry(fd).total_evidence = 20 /\ profile_entry(fd).confidence_level = "Medium"
    /\ \E fd \in profile_dimensions :
          profile_entry(fd).total_evidence = 0 /\ profile_entry(fd).confidence_level = "Low"

----------------------------------------------------------------------------
(* culture_scoring.py: aggregate_review_scores, and the two aggregation    *)
(* paths over the reviews of one company                                    *)

\* sum(evidence_counts)
RECURSIVE IntSum(_)
IntSum(seq) == IF seq = << >> THEN 0 ELSE Head(seq) + IntSum(Tail(seq))

\* "r and r.get(framework, {}).get(dimension, {}).get('score') is not None"
\* (a MIT score is an int, never None)
has_score(r, framework, dimension) ==
    /\ r # None
    /\ framework = "hofstede" => r[framework][dimension].score # None

\* A per-review score as a number: the Hofstede score is a quotient, the MIT
\* score an int.
score_number(r, framework, dimension) ==
    LET score == r[framework][dimension].score
    IN IF framework = "hofstede" THEN score ELSE Rat(score, 1)

\* One dimension of aggregate_review_scores; the std field, a square root, is
\* not carried.
aggregate_dimension(review_scores_list, framework, dimension) ==
    LET scored == SelectSeq(review_scores_list,
                            LAMBDA r : has_score(r, framework, dimension))
        score_list == [i \in 1..Len(scored) |-> score_number(scored[i], framework, dimension)]
        evidence_counts == [i \in 1..Len(scored) |-> scored[i][framework][dimension].evidence_count]
    IN [mean |-> py_div(RatSum(score_list), Rat(Len(score_list), 1)),
        count |-> Len(score_list),
        total_evidence |-> IntSum(evidence_counts)]

\* The dimensions that get an entry: "if scores:"
aggregated_dimensions(review_scores_list, framework, dimensions) ==
    {d \in dimensions :
        \E i \in 1..Len(review_scores_list) : has_score(review_scores_list[i], framework, d)}

aggregate_review_scores(review_scores_list) ==
    IF Len(review_scores_list) = 0 THEN None
    ELSE [hofstede |->
              [d \in aggregated_dimensions(review_scores_list, "hofstede", HofstedeDims) |->
                  aggregate_dimension(review_scores_list, "hofstede", d)],
          mit_big_9 |->
              [d \in aggregated_dimensions(review_scores_list, "mit_big_9", MitDims) |->
                  aggregate_dimension(review_scores_list, "mit_big_9", d)],
          review_count |-> Len(review_scores_list)]

\* The in-memory path: the scores of the company's reviews, one per review
\* that score_all_reviews gives a row (a non-blank text), in id order.
review_scores_list(review_rows, company) ==
    LET scorable == SelectSeq(review_rows,
                        LAMBDA review : /\ review.company_name = company
                                        /\ ~strips_to_empty(combined_text(review)))
    IN [i \in 1..Len(scorable) |->
           score_review_with_dictionary(PyStr(combined_text(scorable[i])))]

----------------------------------------------------------------------------
(* Aggregation: the reviews of a company, scored into rows and aggregated   *)
(* along both paths                                                         *)

MaxAggReviews == 2

\* The review rows the lists are made of: for company c1 three one-sentence
\* reviews (the last without any keyword) and one with a summary and pros; for
\* company c2 one review.
AggReviewRows ==
    {review_row("c1", PyStr(Sentences[k])) : k \in {1, 5, 7}}
    \cup {[company_name |-> "c1", summary |-> PyStr(Sentences[5]),
           pros |-> PyStr(Sentences[2]), cons |-> None]}
    \cup {review_row("c2", PyStr(Sentences[1]))}

RECURSIVE ReviewLists(_)
ReviewLists(n) ==
    IF n = 0 THEN {<< >>}
    ELSE LET shorter == ReviewLists(n - 1)
         IN shorter \cup {Append(l, row) : l \in shorter, row \in AggReviewRows}

InitAggregate ==
    /\ reviews \in ReviewLists(MaxAggReviews)
    /\ review_culture_scores = << >>
    /\ company_metrics = NotCalled
    /\ aggregated = NotCalled
    /\ review_text = NotCalled
    /\ scores = NotCalled
    /\ composite_call = NotCalled
    /\ composite_score = NotCalled
    /\ analyzer = "none"
    /\ culture_data = << >>
    /\ performance_data = << >>
    /\ results = NotCalled
    /\ confidence_metrics = NotCalled
    /\ confidence_result = NotCalled
    /\ mit_max_values_cache = << >>
    /\ company_metrics_cache = << >>
    /\ mit_max_values = NotCalled
    /\ culture_profile = NotCalled
    /\ invalidated = FALSE
    /\ requests = << >>
    /\ company_analysis = NotCalled
    /\ scatter = NotCalled
    /\ scoring_run = NotCalled
    /\ company_culture_profiles = << >>
    /\ extraction_control = [command |-> "idle", current_company |-> None, current_sector |-> None]
    /\ extraction_queue = << >>
    /\ extractors = << >>
    /\ workers = << >>
    /\ manager_thread = << >>
    /\ control_calls = << >>

\* The in-memory aggregate of the company the profile was last asked for.
AggregateReviewScores ==
    /\ company_metrics # NotCalled
    /\ aggregated = NotCalled
    /\ aggregated' =
           [company_name |-> company_metrics.company_name,
            result |-> aggregate_review_scores(
                           review_scores_list(reviews, company_metrics.company_name))]
    /\ UNCHANGED <<lateVars, scorerVars, compositeVars, correlationVars, metricsVars,
                   confidenceVars, servingVars, invalidated>>

NextAggregate == ScoreAllReviews \/ GetCompanyMetrics \/ AggregateReviewScores

SpecAggregate == InitAggregate /\ [][NextAggregate]_vars

----------------------------------------------------------------------------
(* Aggregation: properties *)

\* The rows of review_culture_scores of the company the profile was asked for,
\* and those with a (non-null) score in a column.
profile_rows ==
    {id \in DOMAIN review_culture_scores :
        review_culture_scores[id].company_name = company_metrics.company_name}
rows_with_score(column) == {id \in profile_rows : review_culture_scores[id][column] # None}
rows_with_hit(column) ==
    {id \in rows_with_score(column) : review_culture_scores[id][column].num # 0}

RECURSIVE rows_total(_, _)
rows_total(ids, column) ==
    IF ids = {} THEN Rat(0, 1)
    ELSE LET id == CHOOSE id \in ids : TRUE
         IN RatAdd(review_culture_scores[id][column], rows_total(ids \ {id}, column))

\* The mean of the company's non-null per-review scores of a column.
rows_mean(column) ==
    LET n == Cardinality(rows_with_score(column))
        total == rows_total(rows_with_score(column), column)
    IN Rat(total.num, total.den * n)

\* x is the number of the given decimals nearest to y.
rounded_to(x, y, decimals) ==
    /\ Pow10(decimals) % x.den = 0
    /\ RatLeq(RatMul(Rat(2 * Pow10(decimals), 1), RatSub(x, y)), Rat(1, 1))
    /\ RatLeq(RatMul(Rat(2 * Pow10(decimals), 1), RatSub(y, x)), Rat(1, 1))

\* The profile comes from the pre-scored path: the company has score rows.
pre_scored_profile == returned_profile /\ profile_rows # {}

\* C11 as claimed: on the pre-scored path every dimension's value is the mean
\* of the company's non-null per-review scores and its total_evidence is their
\* count.
C11_AsClaimed ==
    pre_scored_profile =>
        \A fd \in profile_dimensions :
            /\ profile_entry(fd).total_evidence = Cardinality(rows_with_score(fd[2]))
            /\ rows_with_score(fd[2]) # {} => profile_entry(fd).value = rows_mean(fd[2])

\* C11, amended: on the pre-scored path a Hofstede dimension's total_evidence
\* is the count of the company's non-null scores and a MIT dimension's the
\* count of its scores greater than 0; with a total_evidence of 0 the value is
\* 0, otherwise it is the mean of the non-null scores rounded to 2 decimals
\* (Hofstede) or 4 decimals (MIT).
C11_PreScoredAggregate ==
    pre_scored_profile =>
        \A fd \in profile_dimensions :
            LET counted == IF fd[1] = "hofstede" THEN rows_with_score(fd[2])
                           ELSE rows_with_hit(fd[2])
                decimals == IF fd[1] = "hofstede" THEN 2 ELSE 4
            IN /\ profile_entry(fd).total_evidence = Cardinality(counted)
               /\ IF counted = {} THEN profile_entry(fd).value = Rat(0, 1)
                  ELSE rounded_to(profile_entry(fd).value, rows_mean(fd[2]), decimals)

\* C11 witness: a pre-scored profile in which a Hofstede value is a rounded mean
\* that differs from the mean, and a MIT dimension has non-null scores, all 0,
\* and total_evidence 0.
C11_Witness ==
    /\ pre_scored_profile
    /\ \E d \in HOFSTEDE_DIMENSION_KEYS :
          /\ rows_with_score(d) # {}
          /\ company_metrics.result.hofstede[d].value # rows_mean(d)
    /\ \E d \in MIT_DIMENSION_KEYS :
          /\ rows_with_score(d) # {}
          /\ company_metrics.result.mit_big_9[d].total_evidence = 0

\* The company has a review, the database answered, and no score row of the
\* company has a keyword hit in any dimension (it may have no score row).
no_hits_profile_call ==
    /\ company_metrics # NotCalled
    /\ company_metrics.db_connected
    /\ \E i \in 1..Len(reviews) : reviews[i].company_name = company_metrics.company_name
    /\ \A d \in HOFSTEDE_DIMENSION_KEYS : rows_with_score(d) = {}
    /\ \A d \in MIT_DIMENSION_KEYS : rows_with_hit(d) = {}

\* C12: for a company with at least one review and no keyword hit in any
\* scored review (or no scored review), get_company_metrics returns a profile
\* with all 6 Hofstede and all 9 MIT dimensions, each with value 0,
\* total_evidence 0 and confidence_level 'Low'.
C12_PlaceholderProfile ==
    no_hits_profile_call =>
        /\ company_metrics.result # None
        /\ DOMAIN company_metrics.result.hofstede = HofstedeDims
        /\ DOMAIN company_metrics.result.mit_big_9 = MitDims
        /\ Cardinality(DOMAIN company_metrics.result.hofstede) = 6
        /\ Cardinality(DOMAIN company_metrics.result.mit_big_9) = 9
        /\ \A fd \in profile_dimensions :
              /\ profile_entry(fd).value = Rat(0, 1)
              /\ profile_entry(fd).total_evidence = 0
              /\ profile_entry(fd).confidence_level = "Low"

\* C12 witness: the placeholder profile of a company whose reviews are all
\* scored, without a hit.
C12_Witness ==
    /\ no_hits_profile_call
    /\ profile_rows # {}
    /\ DOMAIN review_culture_scores = DOMAIN reviews
    /\ company_metrics.result # None
    /\ \A fd \in profile_dimensions : profile_entry(fd).total_evidence = 0

\* Both paths have aggregated the same company over the same per-review
\* scores: every review has its score row.
both_paths ==
    /\ returned_profile
    /\ aggregated # NotCalled
    /\ aggregated.company_name = company_metrics.company_name
    /\ aggregated.result # None
    /\ DOMAIN review_culture_scores = DOMAIN reviews

\* C13: the in-memory aggregate and the SQL-style aggregate have the same set
\* of dimensions and, for every dimension, the same value and total_evidence.
C13_PathsAgree ==
    both_paths =>
        /\ DOMAIN aggregated.result.hofstede = DOMAIN company_metrics.result.hofstede
        /\ DOMAIN aggregated.result.mit_big_9 = DOMAIN company_metrics.result.mit_big_9
        /\ \A fd \in profile_dimensions :
              fd[2] \in DOMAIN aggregated.result[fd[1]] =>
                  /\ aggregated.result[fd[1]][fd[2]].mean = profile_entry(fd).value
                  /\ aggregated.result[fd[1]][fd[2]].total_evidence
                         = profile_entry(fd).total_evidence

\* Every review of the list has the same score and the same evidence count in
\* the dimension.
uniform_scores(list, fd) ==
    /\ Len(list) >= 1
    /\ \A i \in 1..Len(list) :
          /\ has_score(list[i], fd[1], fd[2])
          /\ list[i][fd[1]][fd[2]].score = list[1][fd[1]][fd[2]].score
          /\ list[i][fd[1]][fd[2]].evidence_count = list[1][fd[1]][fd[2]].evidence_count

\* C14: when the n reviews of a company all score the same value v with the
\* same evidence e on a dimension, the aggregate has value v and total_evidence
\* n x e for it, along either path.
C14_RoundTrip ==
    both_paths =>
        LET list == review_scores_list(reviews, company_metrics.company_name)
        IN \A fd \in profile_dimensions :
              uniform_scores(list, fd) =>
                  LET v == score_number(list[1], fd[1], fd[2])
                      e == list[1][fd[1]][fd[2]].evidence_count
                  IN /\ aggregated.result[fd[1]][fd[2]].mean = v
                     /\ aggregated.result[fd[1]][fd[2]].total_evidence = Len(list) * e
                     /\ profile_entry(fd).value = v
                     /\ profile_entry(fd).total_evidence = Len(list) * e

----------------------------------------------------------------------------
(* app.py: calculate_relative_confidence over any profile *)

MaxEvidence == 2

\* total_reviews of the profile: none, one, and the first counts at which
\* review_count // 15 is 1 and 2.
ConfidenceReviewCounts == {0, 1, 15, 30}

ConfidenceValues == {None, Rat(0, 1), Rat(1, 1)}

confidence_dimension(value, total_evidence) ==
    [value |-> value, confidence |-> 0,
     confidence_level |-> confidence_level_of(total_evidence),
     total_evidence |-> total_evidence]

\* A profile: process_results and agility carry any value and evidence, every
\* other dimension carries no evidence and the same value, null or 0.
confidence_profile(total_reviews, first, second, rest_value) ==
    [company_name |-> "c1",
     total_reviews |-> total_reviews,
     hofstede |-> [d \in HOFSTEDE_DIMENSION_KEYS |->
                      IF d = "process_results" THEN first
                      ELSE confidence_dimension(rest_value, 0)],
     mit_big_9 |-> [d \in MIT_DIMENSION_KEYS |->
                      IF d = "agility" THEN second
                      ELSE confidence_dimension(rest_value, 0)]]

ConfidenceDimensions ==
    {confidence_dimension(value, total_evidence) :
        value \in ConfidenceValues, total_evidence \in 0..MaxEvidence}

InitConfidence ==
    /\ \E total_reviews \in ConfidenceReviewCounts, first \in ConfidenceDimensions,
          second \in ConfidenceDimensions, rest_value \in {None, Rat(0, 1)} :
          confidence_metrics = confidence_profile(total_reviews, first, second, rest_value)
    /\ confidence_result = NotCalled
    /\ review_text = NotCalled
    /\ scores = NotCalled
    /\ composite_call = NotCalled
    /\ composite_score = NotCalled
    /\ analyzer = "none"
    /\ culture_data = << >>
    /\ performance_data = << >>
    /\ results = NotCalled
    /\ review_culture_scores = << >>
    /\ reviews = << >>
    /\ company_metrics = NotCalled
    /\ aggregated = NotCalled
    /\ mit_max_values_cache = << >>
    /\ company_metrics_cache = << >>
    /\ mit_max_values = NotCalled
    /\ culture_profile = NotCalled
    /\ invalidated = FALSE
    /\ requests = << >>
    /\ company_analysis = NotCalled
    /\ scatter = NotCalled
    /\ scoring_run = NotCalled
    /\ company_culture_profiles = << >>
    /\ extraction_control = [command |-> "idle", current_company |-> None, current_sector |-> None]
    /\ extraction_queue = << >>
    /\ extractors = << >>
    /\ workers = << >>
    /\ manager_thread = << >>
    /\ control_calls = << >>

CalculateRelativeConfidence ==
    /\ confidence_result = NotCalled
    /\ confidence_result' = calculate_relative_confidence(confidence_metrics)
    /\ UNCHANGED <<lateVars, confidence_metrics, scorerVars, compositeVars, correlationVars,
                   metricsVars, aggregateVars, servingVars, invalidated>>

NextConfidence == CalculateRelativeConfidence

SpecConfidence == InitConfidence /\ [][NextConfidence]_vars

\* The call has returned, with a confidence_score in every dimension.
confidence_scored ==
    /\ confidence_result # NotCalled
    /\ \A fd \in profile_dimensions :
          "confidence_score" \in DOMAIN confidence_result[fd[1]][fd[2]]

\* C15: after calculate_relative_confidence every dimension's confidence_score
\* lies in [0,100], for every profile.
C15_ScoreBounded ==
    confidence_scored =>
        \A fd \in profile_dimensions :
            /\ RatLeq(Rat(0, 1), confidence_result[fd[1]][fd[2]].confidence_score)
            /\ RatLeq(confidence_result[fd[1]][fd[2]].confidence_score, Rat(100, 1))

\* The profile with k more total_evidence in one dimension, all else the same.
more_evidence(m, fd, k) ==
    [m EXCEPT ![fd[1]][fd[2]].total_evidence = @ + k]

\* C16: raising the total_evidence of one dimension, all else fixed, never
\* lowers that dimension's confidence_score (the step from 0 to 1 included).
C16_Monotone ==
    confidence_scored =>
        \A fd \in profile_dimensions : \A k \in 1..2 :
            RatLeq(confidence_result[fd[1]][fd[2]].confidence_score,
                   calculate_relative_confidence(
                       more_evidence(confidence_metrics, fd, k))[fd[1]][fd[2]].confidence_score)

\* The largest total_evidence of the profile passed in.
largest_evidence ==
    CHOOSE e \in {confidence_metrics[fd[1]][fd[2]].total_evidence : fd \in profile_dimensions} :
        \A fd \in profile_dimensions : confidence_metrics[fd[1]][fd[2]].total_evidence <= e

\* The evidence the claim gives a dimension: its own when positive, the imputed
\* max(1, total_reviews // 15) when it has none but a non-null value.
claimed_evidence(fd) ==
    LET data == confidence_metrics[fd[1]][fd[2]]
        imputed == IF confidence_metrics.total_reviews \div 15 >= 1
                   THEN confidence_metrics.total_reviews \div 15 ELSE 1
    IN IF data.total_evidence > 0 THEN data.total_evidence
       ELSE IF data.value # None THEN imputed
       ELSE 0

\* C17: max_evidence is the largest total_evidence over all dimensions of both
\* frameworks, replaced by total_reviews x 5 when it is 0 (the profile is
\* returned unchanged when total_reviews is 0 too); a dimension's share is
\* taken of its own total_evidence when positive, and of the imputed
\* max(1, total_reviews // 15) when it has none but a non-null value.
C17_RelativeConfidence ==
    confidence_result # NotCalled =>
        IF largest_evidence = 0 /\ confidence_metrics.total_reviews = 0
        THEN confidence_result = confidence_metrics
        ELSE LET max_evidence == IF largest_evidence = 0
                                 THEN confidence_metrics.total_reviews * 5
                                 ELSE largest_evidence
             IN /\ confidence_scored
                /\ \A fd \in profile_dimensions :
                      rounded_to(confidence_result[fd[1]][fd[2]].confidence_score,
                                 Rat(100 * claimed_evidence(fd), max_evidence), 1)

\* C17 witness: a call in which one dimension has evidence of its own and
\* another, without evidence but with a value, is given the imputed evidence 2.
C17_Witness ==
    /\ confidence_scored
    /\ confidence_metrics.total_reviews = 30
    /\ confidence_metrics.hofstede.process_results.total_evidence = 2
    /\ confidence_metrics.mit_big_9.agility.total_evidence = 0
    /\ confidence_metrics.mit_big_9.agility.value # None
    /\ confidence_result.mit_big_9.agility.confidence_score = Rat(100, 1)
    /\ confidence_result.hofstede.process_results.confidence_score = Rat(100, 1)
----------------------------------------------------------------------------
(* app.py: get_mit_max_values, the company_metrics_cache table and
   get_culture_profile *)

\* {dim: 1 for dim in MIT_DIMENSIONS}
fallback_max_values == [dim \in MIT_DIMENSION_KEYS |-> Rat(1, 1)]

\* SELECT MAX(company_avg.<column>) FROM (SELECT AVG(<column>) ... GROUP BY
\* company_name): NULL when no company has an average.
sql_max_company_avg(table, column) ==
    LET companies == {table[id].company_name : id \in DOMAIN table}
        avgs == {sql_avg(table, company, column) : company \in companies} \ {None}
    IN IF avgs = {} THEN None
       ELSE CHOOSE m \in avgs : \A a \in avgs : RatLeq(a, m)

\* float(x or 0)
or_zero(x) == IF x = None \/ x.num = 0 THEN Rat(0, 1) ELSE x

\* The mapping built from the fetched row.
computed_max_values(table) ==
    [dim \in MIT_DIMENSION_KEYS |->
        RatMax(or_zero(sql_max_company_avg(table, dim)), Rat(1, 100))]

\* get_mit_max_values: the returned mapping and _mit_max_values_cache after
\* the call. An empty cache is << >>.
get_mit_max_values(cache, db_connected, table) ==
    IF cache # << >> THEN [result |-> cache, cache |-> cache]
    ELSE IF ~db_connected THEN [result |-> fallback_max_values, cache |-> cache]
    ELSE [result |-> computed_max_values(table), cache |-> computed_max_values(table)]

\* get_cached_metrics over the company_metrics_cache table
get_cached_metrics(table, db_connected, company) ==
    IF ~db_connected THEN None
    ELSE IF company \in DOMAIN table THEN table[company]
    ELSE None

\* Mutant of cache_metrics: on a conflict the review counts are added up.
cache_metrics_merging(table, db_connected, company, metrics) ==
    IF ~db_connected THEN table
    ELSE [c \in DOMAIN table \cup {company} |->
             IF c # company THEN table[c]
             ELSE IF c \in DOMAIN table
                  THEN [metrics EXCEPT !.total_reviews = @ + table[c].total_reviews]
             ELSE metrics]

\* cache_metrics: INSERT ... ON CONFLICT (company_name) DO UPDATE
cache_metrics(table, db_connected, company, metrics) ==
    IF ~db_connected THEN table
    ELSE [c \in DOMAIN table \cup {company} |->
             IF c = company THEN metrics ELSE table[c]]

\* invalidate_cache: the company_metrics_cache table after the call.
invalidate_cache(table, db_connected, company_name) ==
    IF ~db_connected THEN table
    ELSE IF Truthy(company_name)
         THEN [c \in DOMAIN table \ {company_name.value} |-> table[c]]
    ELSE << >>

\* data.get('value', 0) or 0
value_or_zero(data) ==
    IF "value" \notin DOMAIN data THEN Rat(0, 1) ELSE or_zero(data.value)

\* Mutant of rescale_mit: the raw value is not divided by the maximum.
rescale_mit_undivided(raw_value, max_val) ==
    IF max_val.num > 0
    THEN py_round(RatMul(Rat(10, 1), raw_value), 2)
    ELSE Rat(0, 1)

\* round(10 * (raw_value / max_val), 2) if max_val > 0 else 0
rescale_mit(raw_value, max_val) ==
    IF max_val.num > 0
    THEN py_round(RatMul(Rat(10, 1), py_div(raw_value, max_val)), 2)
    ELSE Rat(0, 1)

\* int(data.get('confidence_score', 0)) of a score that is not negative
confidence_int(data) ==
    IF "confidence_score" \in DOMAIN data
    THEN data.confidence_score.num \div data.confidence_score.den
    ELSE 0

hofstede_response(metrics) ==
    [dim \in DOMAIN metrics.hofstede |->
        [value |-> metrics.hofstede[dim].value,
         confidence |-> confidence_int(metrics.hofstede[dim]),
         confidence_level |-> metrics.hofstede[dim].confidence_level]]

mit_response(metrics, max_values) ==
    [dim \in DOMAIN metrics.mit_big_9 |->
        [value |-> rescale_mit(value_or_zero(metrics.mit_big_9[dim]),
                               IF dim \in DOMAIN max_values
                               THEN max_values[dim] ELSE Rat(1, 1)),
         raw_value |-> value_or_zero(metrics.mit_big_9[dim]),
         confidence |-> confidence_int(metrics.mit_big_9[dim]),
         confidence_level |-> metrics.mit_big_9[dim].confidence_level]]

\* The metadata of the response; the rating and the date are not carried.
response_metadata(metrics) ==
    [review_count |-> metrics.total_reviews,
     overall_confidence |->
         py_round(RatMin(Rat(100, 1),
                         RatMul(Rat(metrics.total_reviews,
                                    MIN_REVIEWS_FOR_HIGH_CONFIDENCE),
                                Rat(100, 1))), 1),
     overall_confidence_level |-> confidence_level_of(metrics.total_reviews)]

\* The names of the calls of get_culture_profile that open a connection.
ProfileCalls ==
    {"get_cached_metrics", "get_company_metrics", "cache_metrics", "get_mit_max_values"}

\* get_culture_profile: the response, the two caches after the request, and
\* the mapping get_mit_max_values returned to it (NotCalled on a 404). The
\* response is carried with the handler's local mit_max_values, which is what
\* its MIT values were divided by. db[call] tells whether the call's
\* connection opens.
get_culture_profile(company, db, review_rows, table, metrics_cache, max_cache) ==
    LET cached == get_cached_metrics(metrics_cache, db["get_cached_metrics"], company)
        metrics == IF cached # None THEN cached
                   ELSE get_company_metrics(db["get_company_metrics"],
                                            review_rows, table, company)
        stored == IF cached = None /\ metrics # None
                  THEN cache_metrics(metrics_cache, db["cache_metrics"], company, metrics)
                  ELSE metrics_cache
        maxima == get_mit_max_values(max_cache, db["get_mit_max_values"], table)
    IN IF metrics = None
       THEN [response |-> [status |-> 404, company_name |-> company],
             company_metrics_cache |-> stored,
             mit_max_values_cache |-> max_cache,
             mit_max_values |-> NotCalled]
       ELSE [response |->
                 [status |-> 200,
                  company_name |-> metrics.company_name,
                  hofstede |-> hofstede_response(calculate_relative_confidence(metrics)),
                  mit |-> mit_response(calculate_relative_confidence(metrics),
                                       maxima.result),
                  metadata |-> response_metadata(metrics),
                  mit_max_values |-> maxima.result],
             company_metrics_cache |-> stored,
             mit_max_values_cache |-> maxima.cache,
             mit_max_values |-> [db_connected |-> db["get_mit_max_values"],
                                 result |-> maxima.result]]

----------------------------------------------------------------------------
(* Serving: the database, the two caches and the requests *)

\* The reviews table: two reviews of c1 ("ok. " and the agile sentence) and
\* one of c2.
ServingReviews ==
    << review_row("c1", PyStr(Sentences[7])),
       review_row("c1", PyStr(Sentences[4])),
       review_row("c2", PyStr(Sentences[4])) >>

\* Which connections of one request open: all of them, or all but one.
ConnectionOutcomes ==
    {db \in [ProfileCalls -> BOOLEAN] :
        Cardinality({call \in ProfileCalls : ~db[call]}) <= 1}

\* What invalidate_cache is called with: nothing, or a company name.
InvalidateArguments == {None} \cup {PyStr(c) : c \in MetricsCompanies}

\* The first k reviews are scored before the first step.
InitServing ==
    /\ reviews = ServingReviews
    /\ \E k \in 0..Len(ServingReviews) :
          review_culture_scores = score_all_reviews(SubSeq(ServingReviews, 1, k), << >>)
    /\ company_metrics = NotCalled
    /\ mit_max_values_cache = << >>
    /\ company_metrics_cache = << >>
    /\ mit_max_values = NotCalled
    /\ culture_profile = NotCalled
    /\ invalidated = FALSE
    /\ review_text = NotCalled
    /\ scores = NotCalled
    /\ composite_call = NotCalled
    /\ composite_score = NotCalled
    /\ analyzer = "none"
    /\ culture_data = << >>
    /\ performance_data = << >>
    /\ results = NotCalled
    /\ aggregated = NotCalled
    /\ confidence_metrics = NotCalled
    /\ confidence_result = NotCalled
    /\ requests = << >>
    /\ company_analysis = NotCalled
    /\ scatter = NotCalled
    /\ scoring_run = NotCalled
    /\ company_culture_profiles = << >>
    /\ extraction_control = [command |-> "idle", current_company |-> None, current_sector |-> None]
    /\ extraction_queue = << >>
    /\ extractors = << >>
    /\ workers = << >>
    /\ manager_thread = << >>
    /\ control_calls = << >>

GetMitMaxValues ==
    /\ \E db_connected \in BOOLEAN :
          LET maxima == get_mit_max_values(mit_max_values_cache, db_connected,
                                           review_culture_scores)
          IN /\ mit_max_values' = [db_connected |-> db_connected,
                                   result |-> maxima.result]
             /\ mit_max_values_cache' = maxima.cache
    /\ UNCHANGED <<lateVars, company_metrics_cache, culture_profile, invalidated, scorerVars,
                   compositeVars, correlationVars, metricsVars, aggregateVars,
                   confidenceVars>>

GetCultureProfile ==
    /\ \E company \in MetricsCompanies, db \in ConnectionOutcomes :
          LET request == get_culture_profile(company, db, reviews, review_culture_scores,
                                             company_metrics_cache, mit_max_values_cache)
          IN /\ culture_profile' = request.response
             /\ company_metrics_cache' = request.company_metrics_cache
             /\ mit_max_values_cache' = request.mit_max_values_cache
             /\ mit_max_values' = IF request.mit_max_values = NotCalled
                                  THEN mit_max_values
                                  ELSE request.mit_max_values
    /\ UNCHANGED <<lateVars, invalidated, scorerVars, compositeVars, correlationVars, metricsVars,
                   aggregateVars, confidenceVars>>

InvalidateCache ==
    /\ \E db_connected \in BOOLEAN, company_name \in InvalidateArguments :
          /\ company_metrics_cache' =
                 invalidate_cache(company_metrics_cache, db_connected, company_name)
          /\ invalidated' = IF db_connected /\ ~Truthy(company_name)
                            THEN TRUE ELSE invalidated
    /\ UNCHANGED <<lateVars, mit_max_values_cache, mit_max_values, culture_profile, scorerVars,
                   compositeVars, correlationVars, metricsVars, aggregateVars,
                   confidenceVars>>

NextServing == ScoreAllReviews \/ GetMitMaxValues \/ GetCultureProfile \/ InvalidateCache

SpecServing == InitServing /\ [][NextServing]_vars

----------------------------------------------------------------------------
(* Serving: properties *)

served == culture_profile # NotCalled /\ culture_profile.status = 200

served_next == culture_profile' # NotCalled /\ culture_profile'.status = 200

\* Per-company averages of a column, the companies being those with rows.
company_averages(table, column) ==
    {sql_avg(table, table[id].company_name, column) : id \in DOMAIN table}

\* x is a multiple of 1/100 within 1/200 of 10 * raw / max.
rounded_quotient(x, raw, max) ==
    /\ 100 % x.den = 0
    /\ RatLeq(RatSub(RatMul(x, max), RatMul(Rat(10, 1), raw)), RatMul(max, Rat(1, 200)))
    /\ RatLeq(RatSub(RatMul(Rat(10, 1), raw), RatMul(x, max)), RatMul(max, Rat(1, 200)))

C19_ServedInRange ==
    served =>
       \A dim \in MIT_DIMENSION_KEYS :
          /\ RatLeq(Rat(0, 1), culture_profile.mit[dim].value)
          /\ RatLeq(culture_profile.mit[dim].value, Rat(10, 1))

\* C20: once invalidate_cache has run after the last stored scores, a
\* get_mit_max_values call that reaches the database returns the maxima of the
\* current review_culture_scores.
C20_RecomputedAfterInvalidate ==
    [][(invalidated /\ mit_max_values' # mit_max_values /\ mit_max_values'.db_connected) =>
          mit_max_values'.result = computed_max_values(review_culture_scores')]_vars

----------------------------------------------------------------------------
(* app.py: get_company_analysis and get_culture_performance_scatter, the    *)
(* culture alignment scores and their confidence                            *)

\* x + y, x * y and x / y of exact values, with the common factors taken out
\* before the products are formed.
exact_add(x, y) ==
    LET g == GCD(x.den, y.den)
    IN Rat(x.num * (y.den \div g) + y.num * (x.den \div g), (x.den \div g) * y.den)
exact_mul(x, y) ==
    LET g1 == GCD(Abs(x.num), y.den)
        g2 == GCD(Abs(y.num), x.den)
    IN Rat((x.num \div g1) * (y.num \div g2), (x.den \div g2) * (y.den \div g1))
exact_div(x, y) ==
    IF y.num = 0 THEN Raised("ZeroDivisionError")
    ELSE exact_mul(x, Rat(y.den, y.num))

\* Python float arithmetic over exact values: nan is absorbing, and every
\* comparison with nan is false.
float_add(x, y) == IF x = NaN \/ y = NaN THEN NaN ELSE exact_add(x, y)
float_sub(x, y) == IF x = NaN \/ y = NaN THEN NaN ELSE exact_add(x, Rat(-y.num, y.den))
float_mul(x, y) == IF x = NaN \/ y = NaN THEN NaN ELSE exact_mul(x, y)
float_div(x, y) == IF x = NaN \/ y = NaN THEN NaN ELSE exact_div(x, y)
float_abs(x) == IF x = NaN THEN NaN ELSE Rat(Abs(x.num), x.den)
float_round(x, ndigits) == IF x = NaN THEN NaN ELSE py_round(x, ndigits)
greater_than_zero(x) == x # NaN /\ x.num > 0
at_least(x, n) == x # NaN /\ RatLeq(Rat(n, 1), x)

RECURSIVE float_sum(_)
float_sum(seq) ==
    IF seq = << >> THEN Rat(0, 1) ELSE float_add(seq[1], float_sum(Tail(seq)))

\* statistics.mean of a non-empty list of numbers
mean(vals) == py_div(RatSum(vals), Rat(Len(vals), 1))

\* The largest n in lo..hi with (2n - 1)^2 <= m, lo when there is none.
RECURSIVE nearest_thousandth(_, _, _)
nearest_thousandth(lo, hi, m) ==
    IF lo = hi THEN lo
    ELSE LET mid == (lo + hi + 1) \div 2
         IN IF (2 * mid - 1) * (2 * mid - 1) <= m
            THEN nearest_thousandth(mid, hi, m)
            ELSE nearest_thousandth(lo, mid - 1, m)

\* round(corr_val, 3) of the correlation sign * sqrt(squared): n / 1000 with
\* (n - 1/2)^2 <= 10^6 * squared < (n + 1/2)^2.
round_correlation(r) ==
    IF r = NaN THEN NaN
    ELSE LET scaled == 2000 * r.squared.num
             m == 2000 * (scaled \div r.squared.den)
                  + (2000 * (scaled % r.squared.den)) \div r.squared.den
         IN Rat(r.sign * nearest_thousandth(0, 1000, m), 1000)

\* "dim_data = corr_data.get(dim, {}).get('composite_score', {});
\*  dim_data.get('correlation', 0)": the rounded correlation the entry stores.
dimension_correlations(corr_data, dims) ==
    [dim \in Range(dims) |->
        LET dim_data == dict_get(dict_get(corr_data, dim, EmptyDict),
                                 "composite_score", EmptyDict)
        IN IF "correlation" \in DOMAIN dim_data
           THEN round_correlation(dim_data.correlation)
           ELSE Rat(0, 1)]

\* "SELECT DISTINCT company_name FROM reviews ORDER BY company_name"
distinct_company_names(table) ==
    SelectSeq(CompanyNames,
              LAMBDA name : \E id \in DOMAIN table : table[id].company_name = name)

\* "m = get_cached_metrics(name); if not m: m = get_company_metrics(name)" for
\* every name: the names with metrics, and their metrics.
all_metrics(db_connected, cache, review_table, score_table, names) ==
    LET found(name) ==
            LET m == get_cached_metrics(cache, db_connected, name)
            IN IF m # None THEN m
               ELSE get_company_metrics(db_connected, review_table, score_table, name)
        with_metrics == SelectSeq(names, LAMBDA name : found(name) # None)
    IN [names |-> with_metrics,
        metrics |-> [k \in 1..Len(with_metrics) |-> found(with_metrics[k])] \o << >>]

\* all_metrics.get(name) of a name that has metrics
metrics_of(all, name) ==
    all.metrics[CHOOSE k \in 1..Len(all.names) : all.names[k] = name]

\* hofstede_avg[dim] / mit_avg[dim]: the values of the companies with metrics
dimension_values(all, framework, dim) ==
    [k \in 1..Len(all.names) |-> all.metrics[k][framework][dim].value]

\* The culture_data list both routes hand to calculate_correlation.
alignment_culture_data(all) ==
    [k \in 1..Len(all.names) |->
        [company |-> all.names[k],
         hofstede |-> all.metrics[k].hofstede,
         mit |-> all.metrics[k].mit_big_9]] \o << >>

\* One framework's loop: score, weighted confidence sum, weight sum and the
\* confidence drawn from them.
framework_alignment(dims, company_vals, industry_vals, correlations, metrics_block) ==
    LET terms == [k \in 1..Len(dims) |->
                    float_mul(correlations[dims[k]],
                              float_sub(company_vals[dims[k]],
                                        dict_get(industry_vals, dims[k], Rat(0, 1))))]
        conf(dim) == LET data == dict_get(metrics_block, dim, EmptyDict)
                     IN py_div(dict_get(data, "confidence_score", Rat(0, 1)), Rat(100, 1))
        weights == [k \in 1..Len(dims) |-> float_abs(correlations[dims[k]])]
        weighted == [k \in 1..Len(dims) |-> float_mul(conf(dims[k]), weights[k])]
        total_weights == float_sum(weights)
        weighted_conf_sum == float_sum(weighted)
    IN [score |-> float_sum(terms),
        weight_sum |-> total_weights,
        confidence |-> IF greater_than_zero(total_weights)
                       THEN float_mul(float_div(weighted_conf_sum, total_weights), Rat(100, 1))
                       ELSE Rat(0, 1)]

\* combined_score and combined_confidence
combined_alignment(h, m) ==
    LET total_weight == float_add(h.weight_sum, m.weight_sum)
    IN [score |-> float_add(float_mul(h.score, Rat(5, 1)), m.score),
        confidence |->
            IF greater_than_zero(total_weight)
            THEN float_div(float_add(float_mul(h.confidence, h.weight_sum),
                                     float_mul(m.confidence, m.weight_sum)),
                           total_weight)
            ELSE Rat(0, 1)]

\* The performance_data list both routes build: the records of the companies
\* that have one, each with its composite score.
alignment_performance_data(perf, names) ==
    SelectSeq(perf, LAMBDA p : p.company \in Range(names))

\* "10 * (raw / max_val) if max_val > 0 else 0"
ten_times_ratio(raw, max_val) ==
    IF max_val.num > 0 THEN RatMul(Rat(10, 1), py_div(raw, max_val)) ELSE Rat(0, 1)

extract_correlations(correlations) ==
    [hofstede |-> dimension_correlations(correlations.hofstede, culture_dimensions),
     mit |-> dimension_correlations(correlations.mit, mit_dimensions)]

\* "name = value" followed by the statements that use the name.
bind(value, rest(_)) == rest(value)

\* get_company_analysis from the alignment scores on: the response.
analysis_response(company_name, metrics, all, max_values, correlations) ==
    LET hofstede_dims == {dim \in Range(culture_dimensions) : Len(all.names) > 0}
        industry_hofstede ==
            [dim \in hofstede_dims |->
                py_round(mean(dimension_values(all, "hofstede", dim)), 3)]
        industry_mit ==
            [dim \in {dim \in Range(mit_dimensions) : Len(all.names) > 0} |->
                py_round(ten_times_ratio(mean(dimension_values(all, "mit_big_9", dim)),
                                         max_values[dim]), 2)]
        company_hofstede ==
            [dim \in Range(culture_dimensions) |-> metrics.hofstede[dim].value]
        company_mit ==
            [dim \in Range(mit_dimensions) |->
                py_round(ten_times_ratio(metrics.mit_big_9[dim].value,
                                         max_values[dim]), 2)]
    IN bind(framework_alignment(culture_dimensions, company_hofstede,
                                industry_hofstede, correlations.hofstede,
                                metrics.hofstede), LAMBDA h :
       bind(framework_alignment(mit_dimensions, company_mit, industry_mit,
                                correlations.mit, metrics.mit_big_9), LAMBDA m :
       bind(combined_alignment(h, m), LAMBDA combined :
           [status |-> 200, success |-> TRUE, company_name |-> company_name,
            company |-> [hofstede |-> company_hofstede, mit |-> company_mit],
            industry_average |-> [hofstede |-> industry_hofstede, mit |-> industry_mit],
            correlations |-> correlations,
            culture_scores |->
                [hofstede |-> float_round(h.score, 3),
                 mit |-> float_round(m.score, 3),
                 combined |-> float_round(combined.score, 3),
                 hofstede_confidence |-> float_round(h.confidence, 1),
                 mit_confidence |-> float_round(m.confidence, 1),
                 combined_confidence |-> float_round(combined.confidence, 1)]])))

\* get_company_analysis: the response, and the two caches after the request.
get_company_analysis(db_connected, cache, max_cache, review_table, score_table, perf, company_name) ==
    bind(get_cached_metrics(cache, db_connected, company_name), LAMBDA cached :
    bind(IF cached # None THEN cached
         ELSE get_company_metrics(db_connected, review_table, score_table, company_name),
         LAMBDA metrics :
    bind(IF cached = None /\ metrics # None
         THEN cache_metrics(cache, db_connected, company_name, metrics)
         ELSE cache, LAMBDA cache_after :
        IF metrics = None
        THEN [response |-> [status |-> 404, success |-> FALSE],
              cache |-> cache_after, max_cache |-> max_cache]
        ELSE
        bind(distinct_company_names(review_table), LAMBDA company_names :
        bind(all_metrics(db_connected, cache_after, review_table, score_table,
                         company_names), LAMBDA all :
        bind(get_mit_max_values(max_cache, db_connected, score_table), LAMBDA maxima :
        bind(extract_correlations(
                 calculate_correlation("PerformanceAnalyzer",
                     alignment_culture_data(all),
                     alignment_performance_data(perf, company_names))),
             LAMBDA correlations :
            [response |-> analysis_response(company_name, metrics, all, maxima.result,
                                            correlations),
             cache |-> cache_after, max_cache |-> maxima.cache])))))))

\* get_confidence_level of the scatter route
get_confidence_level(conf) ==
    IF at_least(conf, 50) THEN "High"
    ELSE IF at_least(conf, 25) THEN "Medium"
    ELSE "Low"

\* One turn of the scatter route's loop over the companies: the entry of a
\* company that has metrics, a performance record and a composite score.
scatter_entry(name, metrics, composite, industry, max_values, correlations) ==
    LET company_hofstede ==
            [dim \in Range(culture_dimensions) |-> metrics.hofstede[dim].value]
        company_mit ==
            [dim \in Range(mit_dimensions) |->
                ten_times_ratio(metrics.mit_big_9[dim].value, max_values[dim])]
        industry_mit ==
            [dim \in Range(mit_dimensions) |->
                ten_times_ratio(industry.mit[dim], max_values[dim])]
    IN bind(framework_alignment(culture_dimensions, company_hofstede,
                                industry.hofstede, correlations.hofstede,
                                metrics.hofstede), LAMBDA h :
       bind(framework_alignment(mit_dimensions, company_mit, industry_mit,
                                correlations.mit, metrics.mit_big_9), LAMBDA m :
       bind(combined_alignment(h, m), LAMBDA combined :
           [company_name |-> name,
            hofstede_score |-> float_round(h.score, 3),
            mit_score |-> float_round(m.score, 3),
            combined_score |-> float_round(combined.score, 3),
            hofstede_confidence |-> float_round(h.confidence, 1),
            mit_confidence |-> float_round(m.confidence, 1),
            combined_confidence |-> float_round(combined.confidence, 1),
            hofstede_confidence_level |-> get_confidence_level(h.confidence),
            mit_confidence_level |-> get_confidence_level(m.confidence),
            combined_confidence_level |-> get_confidence_level(combined.confidence),
            composite_performance |-> py_round(composite, 1)])))

\* The scatter route from the loop over the companies on: the response.
scatter_response(perf, all, max_values, correlations) ==
    LET values_or_zero(framework, dim) ==
            IF Len(all.names) > 0 THEN mean(dimension_values(all, framework, dim))
            ELSE Rat(0, 1)
        listed == SelectSeq(all.names,
                      LAMBDA name : /\ has_record(perf, name)
                                    /\ last_record(perf, name).composite_score # None)
    IN bind([hofstede |-> [dim \in Range(culture_dimensions) |->
                              values_or_zero("hofstede", dim)],
             mit |-> [dim \in Range(mit_dimensions) |-> values_or_zero("mit_big_9", dim)]],
            LAMBDA industry :
           [status |-> 200, success |-> TRUE,
            companies |->
                [k \in 1..Len(listed) |->
                    scatter_entry(listed[k], metrics_of(all, listed[k]),
                                  last_record(perf, listed[k]).composite_score,
                                  industry, max_values, correlations)],
            mit_max_values |-> max_values,
            industry_average |-> industry,
            correlations |-> correlations])

\* get_culture_performance_scatter: the response, with the mapping and the
\* correlations the request used, and _max_valuescache after it.
get_culture_performance_scatter(db_connected, cache, max_cache, review_table, score_table, perf) ==
    IF ~db_connected
    THEN [response |-> [status |-> 500, success |-> FALSE], max_cache |-> max_cache]
    ELSE
    bind(distinct_company_names(review_table), LAMBDA company_names :
    bind(all_metrics(db_connected, cache, review_table, score_table, company_names),
         LAMBDA all :
    bind(extract_correlations(
             calculate_correlation("PerformanceAnalyzer",
                 alignment_culture_data(all),
                 alignment_performance_data(perf, company_names))),
         LAMBDA correlations :
    bind(get_mit_max_values(max_cache, db_connected, score_table), LAMBDA maxima :
        [response |-> scatter_response(perf, all, maxima.result, correlations),
         max_cache |-> maxima.cache]))))

----------------------------------------------------------------------------
(* The alignment routes: the cached profiles, the performance records and   *)
(* the requests                                                             *)

AlignmentCompanies == SubSeq(CompanyNames, 1, 6)

\* Per company a level in 1..3 for the odd and for the even dimensions.
CultureLevelVectors ==
    {[odd |-> <<1, 2, 3, 1, 3, 2>>, even |-> <<3, 2, 1, 2, 2, 2>>],
     [odd |-> <<2, 2, 2, 2, 2, 2>>, even |-> <<1, 3, 1, 3, 2, 2>>]}

\* The dimensions in which no review of any company has evidence.
DimensionsWithoutEvidence == {{}, {"pragmatic_normative", "respect"}}

\* The number of reviews with evidence, for the odd and the even dimensions.
EvidenceCounts == {[odd |-> 4, even |-> 4], [odd |-> 4, even |-> 1]}

\* Per company the level of its performance record, 0 when it has none.
PerformanceLevelVectors == {<<1, 1, 1, 1, 3, 0>>, <<1, 3, 2, 1, 3, 2>>}

\* Mappings get_mit_max_values computed and cached before the requests.
CachedMaxValues ==
    {[dim \in MIT_DIMENSION_KEYS |-> Rat(10, 1)], [dim \in MIT_DIMENSION_KEYS |-> Rat(6, 1)]}

position(dims, dim) == CHOOSE k \in 1..Len(dims) : dims[k] = dim

\* The profile get_company_metrics returned for a company and cache_metrics
\* stored: Hofstede averages (level - 2) / 4, MIT averages 2 * level.
cached_profile(company, odd, even, without, counts) ==
    LET level(dims, dim) == IF position(dims, dim) % 2 = 1 THEN odd ELSE even
        count(dims, dim) == IF dim \in without THEN 0
                            ELSE IF position(dims, dim) % 2 = 1 THEN counts.odd
                            ELSE counts.even
    IN calculate_relative_confidence(
           [company_name |-> company,
            total_reviews |-> 4,
            hofstede |-> [dim \in Range(culture_dimensions) |->
                dimension_metrics(Rat(level(culture_dimensions, dim) - 2, 4),
                                  count(culture_dimensions, dim), 2)],
            mit_big_9 |-> [dim \in Range(mit_dimensions) |->
                dimension_metrics(Rat(2 * level(mit_dimensions, dim), 1),
                                  count(mit_dimensions, dim), 4)]])

InitAlignment ==
    /\ analyzer = "PerformanceAnalyzer"
    /\ reviews = [k \in 1..Len(AlignmentCompanies) |-> review_row(AlignmentCompanies[k], None)]
    /\ review_culture_scores = << >>
    /\ \E levels \in CultureLevelVectors, without \in DimensionsWithoutEvidence,
          counts \in EvidenceCounts :
          company_metrics_cache =
              [company \in Range(AlignmentCompanies) |->
                  LET k == position(AlignmentCompanies, company)
                  IN cached_profile(company, levels.odd[k], levels.even[k], without, counts)]
    /\ \E levels \in PerformanceLevelVectors :
          performance_data =
              LET with_record == SelectSeq([k \in 1..Len(AlignmentCompanies) |-> k],
                                           LAMBDA k : levels[k] > 0)
              IN [j \in 1..Len(with_record) |->
                     performance_item("PerformanceAnalyzer",
                         AlignmentCompanies[with_record[j]],
                         [shape |-> "full", level |-> levels[with_record[j]]])]
    /\ mit_max_values_cache \in CachedMaxValues
    /\ company_analysis = NotCalled
    /\ scatter = NotCalled
    /\ culture_data = << >>
    /\ results = NotCalled
    /\ review_text = NotCalled
    /\ scores = NotCalled
    /\ composite_call = NotCalled
    /\ composite_score = NotCalled
    /\ company_metrics = NotCalled
    /\ aggregated = NotCalled
    /\ confidence_metrics = NotCalled
    /\ confidence_result = NotCalled
    /\ mit_max_values = NotCalled
    /\ culture_profile = NotCalled
    /\ invalidated = FALSE
    /\ requests = << >>
    /\ scoring_run = NotCalled
    /\ company_culture_profiles = << >>
    /\ extraction_control = [command |-> "idle", current_company |-> None, current_sector |-> None]
    /\ extraction_queue = << >>
    /\ extractors = << >>
    /\ workers = << >>
    /\ manager_thread = << >>
    /\ control_calls = << >>

GetCompanyAnalysis ==
    /\ company_analysis = NotCalled
    /\ \E company_name \in Range(AlignmentCompanies), db_connected \in BOOLEAN :
          LET request == get_company_analysis(db_connected, company_metrics_cache,
                             mit_max_values_cache, reviews, review_culture_scores,
                             performance_data, company_name)
          IN /\ company_analysis' = request.response
             /\ company_metrics_cache' = request.cache
             /\ mit_max_values_cache' = request.max_cache
    /\ UNCHANGED <<exceptAlignmentVars, mit_max_values, culture_profile, scatter>>

GetCulturePerformanceScatter ==
    /\ scatter = NotCalled
    /\ \E db_connected \in BOOLEAN :
          LET request == get_culture_performance_scatter(db_connected,
                             company_metrics_cache, mit_max_values_cache, reviews,
                             review_culture_scores, performance_data)
          IN /\ scatter' = request.response
             /\ mit_max_values_cache' = request.max_cache
    /\ UNCHANGED <<exceptAlignmentVars, company_metrics_cache, mit_max_values,
                   culture_profile, company_analysis>>

NextAlignment == GetCompanyAnalysis \/ GetCulturePerformanceScatter

SpecAlignment == InitAlignment /\ [][NextAlignment]_vars

----------------------------------------------------------------------------
(* The alignment scores and their confidence: properties *)

\* The entries both routes answer with, in one shape: the company, the three
\* scores and the three confidences, and the correlations the request used.
alignment_answers ==
    (IF company_analysis # NotCalled /\ company_analysis.status = 200
     THEN {[route |-> "analysis", company |-> company_analysis.company_name,
            scores |-> [hofstede |-> company_analysis.culture_scores.hofstede,
                        mit |-> company_analysis.culture_scores.mit,
                        combined |-> company_analysis.culture_scores.combined],
            confidence |->
                [hofstede |-> company_analysis.culture_scores.hofstede_confidence,
                 mit |-> company_analysis.culture_scores.mit_confidence,
                 combined |-> company_analysis.culture_scores.combined_confidence],
            correlations |-> company_analysis.correlations]}
     ELSE {})
    \cup
    (IF scatter # NotCalled /\ scatter.status = 200
     THEN {[route |-> "scatter", company |-> scatter.companies[k].company_name,
            scores |-> [hofstede |-> scatter.companies[k].hofstede_score,
                        mit |-> scatter.companies[k].mit_score,
                        combined |-> scatter.companies[k].combined_score],
            confidence |->
                [hofstede |-> scatter.companies[k].hofstede_confidence,
                 mit |-> scatter.companies[k].mit_confidence,
                 combined |-> scatter.companies[k].combined_confidence],
            correlations |-> scatter.correlations] : k \in 1..Len(scatter.companies)}
     ELSE {})

profile_key(framework) == IF framework = "hofstede" THEN "hofstede" ELSE "mit_big_9"
dims_of(framework) == IF framework = "hofstede" THEN culture_dimensions ELSE mit_dimensions

\* The normalized value of a company in a dimension: the Hofstede average, and
\* 10 x the MIT average over the maximum in use.
normalized_value(company, framework, dim) ==
    LET value == company_metrics_cache[company][profile_key(framework)][dim].value
    IN IF framework = "hofstede" THEN value
       ELSE exact_div(exact_mul(Rat(10, 1), value), mit_max_values_cache[dim])

\* The simple mean of all companies' normalized values.
industry_average(framework, dim) ==
    LET companies == distinct_company_names(reviews)
    IN exact_div(
           float_sum([k \in 1..Len(companies) |->
                         normalized_value(companies[k], framework, dim)]),
           Rat(Len(companies), 1))

deviation(company, framework, dim) ==
    float_sub(normalized_value(company, framework, dim), industry_average(framework, dim))

\* sum over the framework's dimensions of correlation x deviation
claimed_score(answer, framework) ==
    LET dims == dims_of(framework)
    IN float_sum([k \in 1..Len(dims) |->
           float_mul(answer.correlations[framework][dims[k]],
                     deviation(answer.company, framework, dims[k]))])

at_industry_average(company) ==
    \A framework \in Frameworks : \A dim \in Range(dims_of(framework)) :
        deviation(company, framework, dim) = Rat(0, 1)

\* x is a number within slack of the number y
within(x, y, slack) ==
    /\ x # NaN
    /\ y # NaN
    /\ RatLeq(float_abs(float_sub(x, y)), slack)

\* The scores are answered to 3 decimals, from values displayed to 2 and 3.
ScoreSlack == Rat(1, 10)
CombinedSlack == Rat(4, 1000)

\* C23: each framework's score is the sum over its dimensions of correlation
\* x (normalized value - mean of all companies' normalized values), the
\* combined score is 5 x the hofstede score + the mit score, and a company at
\* the industry average in every dimension scores 0.
C23_AlignmentScores ==
    \A answer \in alignment_answers :
        /\ \A framework \in Frameworks :
              within(answer.scores[framework], claimed_score(answer, framework), ScoreSlack)
        /\ within(answer.scores.combined,
                  float_add(float_mul(Rat(5, 1), answer.scores.hofstede),
                            answer.scores.mit),
                  CombinedSlack)
        /\ at_industry_average(answer.company) =>
              /\ answer.scores.hofstede = Rat(0, 1)
              /\ answer.scores.mit = Rat(0, 1)
              /\ answer.scores.combined = Rat(0, 1)

confidence_scores(company, framework) ==
    LET dims == dims_of(framework)
    IN [k \in 1..Len(dims) |->
           company_metrics_cache[company][profile_key(framework)][dims[k]].confidence_score]

weights(answer, framework) ==
    LET dims == dims_of(framework)
    IN [k \in 1..Len(dims) |-> float_abs(answer.correlations[framework][dims[k]])]

\* The |correlation|-weighted average of the confidence scores, 0 when every
\* weight is 0.
claimed_confidence(answer, framework) ==
    LET w == weights(answer, framework)
        c == confidence_scores(answer.company, framework)
        total == float_sum(w)
    IN IF total = Rat(0, 1) THEN Rat(0, 1)
       ELSE float_div(float_sum([k \in 1..Len(w) |-> float_mul(c[k], w[k])]), total)

claimed_combined_confidence(answer) ==
    LET wh == float_sum(weights(answer, "hofstede"))
        wm == float_sum(weights(answer, "mit"))
    IN IF float_add(wh, wm) = Rat(0, 1) THEN Rat(0, 1)
       ELSE float_div(float_add(float_mul(claimed_confidence(answer, "hofstede"), wh),
                                float_mul(claimed_confidence(answer, "mit"), wm)),
                      float_add(wh, wm))

between(x, a, b) ==
    /\ x # NaN
    /\ RatLeq(RatMin(a, b), x)
    /\ RatLeq(x, RatMax(a, b))

claimed_level(conf) ==
    IF conf = NaN THEN "undefined"
    ELSE IF RatLeq(Rat(50, 1), conf) THEN "High"
    ELSE IF RatLeq(Rat(25, 1), conf) THEN "Medium"
    ELSE "Low"

scatter_levels(company) ==
    LET entry == scatter.companies[CHOOSE k \in 1..Len(scatter.companies) :
                                       scatter.companies[k].company_name = company]
    IN [hofstede |-> entry.hofstede_confidence_level,
        mit |-> entry.mit_confidence_level,
        combined |-> entry.combined_confidence_level]

\* The confidences are answered to 1 decimal.
ConfidenceSlack == Rat(5, 100)

\* Some dimension of the framework has a weight that is not 0.
weighted(answer, framework) == float_sum(weights(answer, framework)) # Rat(0, 1)

\* C24: each framework's confidence is the |correlation|-weighted average of
\* its dimensions' confidence scores (0 when every weight is 0) and lies
\* between the smallest and the largest of them; the combined confidence is
\* the average of the two weighted by the weight sums and lies between them;
\* each is bucketed High at 50 and above, Medium at 25 and above, else Low.
C24_AlignmentConfidence ==
    \A answer \in alignment_answers :
        /\ \A framework \in Frameworks :
              /\ within(answer.confidence[framework],
                        claimed_confidence(answer, framework), ConfidenceSlack)
              /\ weighted(answer, framework) =>
                    \E lo, hi \in Range(confidence_scores(answer.company, framework)) :
                        between(answer.confidence[framework], lo, hi)
        /\ within(answer.confidence.combined, claimed_combined_confidence(answer),
                  ConfidenceSlack)
        /\ between(answer.confidence.combined, answer.confidence.hofstede,
                   answer.confidence.mit)
        /\ answer.route = "scatter" =>
              /\ \A framework \in Frameworks :
                    scatter_levels(answer.company)[framework]
                        = claimed_level(claimed_confidence(answer, framework))
              /\ scatter_levels(answer.company).combined
                    = claimed_level(claimed_combined_confidence(answer))
----------------------------------------------------------------------------
(* Concurrent cache fills: every request thread runs the miss-compute-write
   sequence of the route handlers (get_cached_metrics, get_company_metrics,
   cache_metrics) or get_mit_max_values; a step is one database round trip
   or one assignment of the global. *)

MaxThreads == 2

Threads == 1..MaxThreads

\* What a request fills: the metrics of a company, or the MIT maxima.
RequestTargets == {"maxima"} \cup MetricsCompanies

request_at(target, pc, local, wrote) ==
    [target |-> target, pc |-> pc, local |-> local, wrote |-> wrote]

\* The score rows are those of the first k reviews, k >= 1; they do not change
\* while the requests run.
InitConcurrent ==
    /\ reviews = ServingReviews
    /\ \E k \in 1..Len(ServingReviews) :
          review_culture_scores = score_all_reviews(SubSeq(ServingReviews, 1, k), << >>)
    /\ requests \in [Threads -> {request_at(target, "check", None, FALSE) :
                                    target \in RequestTargets}]
    /\ company_metrics = NotCalled
    /\ mit_max_values_cache = << >>
    /\ company_metrics_cache = << >>
    /\ mit_max_values = NotCalled
    /\ culture_profile = NotCalled
    /\ invalidated = FALSE
    /\ review_text = NotCalled
    /\ scores = NotCalled
    /\ composite_call = NotCalled
    /\ composite_score = NotCalled
    /\ analyzer = "none"
    /\ culture_data = << >>
    /\ performance_data = << >>
    /\ results = NotCalled
    /\ aggregated = NotCalled
    /\ confidence_metrics = NotCalled
    /\ confidence_result = NotCalled
    /\ company_analysis = NotCalled
    /\ scatter = NotCalled
    /\ scoring_run = NotCalled
    /\ company_culture_profiles = << >>
    /\ extraction_control = [command |-> "idle", current_company |-> None, current_sector |-> None]
    /\ extraction_queue = << >>
    /\ extractors = << >>
    /\ workers = << >>
    /\ manager_thread = << >>
    /\ control_calls = << >>

\* "if _mit_max_values_cache: return" / "metrics = get_cached_metrics(name)":
\* a hit ends the request, a miss goes on to compute.
RequestCheck ==
    /\ \E t \in Threads, db_connected \in BOOLEAN :
          /\ requests[t].pc = "check"
          /\ LET target == requests[t].target
                 found == IF target = "maxima"
                          THEN IF mit_max_values_cache # << >>
                               THEN mit_max_values_cache ELSE None
                          ELSE get_cached_metrics(company_metrics_cache, db_connected,
                                                  target)
             IN requests' = [requests EXCEPT ![t] =
                    IF found # None THEN request_at(target, "done", found, FALSE)
                    ELSE request_at(target, "compute", None, FALSE)]
    /\ UNCHANGED <<exceptConcurrentVars, servingVars>>

\* The query of get_mit_max_values / get_company_metrics: without a connection
\* the request ends and nothing is written.
RequestCompute ==
    /\ \E t \in Threads, db_connected \in BOOLEAN :
          /\ requests[t].pc = "compute"
          /\ LET target == requests[t].target
                 computed == IF target = "maxima"
                             THEN IF db_connected
                                  THEN computed_max_values(review_culture_scores)
                                  ELSE None
                             ELSE get_company_metrics(db_connected, reviews,
                                                      review_culture_scores, target)
             IN requests' = [requests EXCEPT ![t] =
                    IF computed = None THEN request_at(target, "done", None, FALSE)
                    ELSE request_at(target, "write", computed, FALSE)]
    /\ UNCHANGED <<exceptConcurrentVars, servingVars>>

\* "_mit_max_values_cache = {...}" / cache_metrics(name, metrics)
RequestWrite ==
    /\ \E t \in Threads, db_connected \in BOOLEAN :
          /\ requests[t].pc = "write"
          /\ LET target == requests[t].target
                 local == requests[t].local
             IN /\ mit_max_values_cache' =
                       IF target = "maxima" THEN local ELSE mit_max_values_cache
                /\ company_metrics_cache' =
                       IF target = "maxima" THEN company_metrics_cache
                       ELSE cache_metrics(company_metrics_cache, db_connected,
                                          target, local)
                /\ requests' = [requests EXCEPT ![t] =
                       request_at(target, "done", local,
                                  target = "maxima" \/ db_connected)]
    /\ UNCHANGED <<exceptConcurrentVars, mit_max_values, culture_profile>>

NextConcurrent == RequestCheck \/ RequestCompute \/ RequestWrite

SpecConcurrent == InitConcurrent /\ [][NextConcurrent]_vars

\* C21: whatever the interleaving of the requests, a cache entry that exists
\* is the value one recomputation from the tables stores: the metrics of the
\* company, and the maxima of the score rows.
C21_IdempotentFill ==
    /\ \A company \in DOMAIN company_metrics_cache :
          company_metrics_cache[company] =
              get_company_metrics(TRUE, reviews, review_culture_scores, company)
    /\ mit_max_values_cache # << >> =>
          mit_max_values_cache = computed_max_values(review_culture_scores)

\* Two requests missed, computed and wrote the same entry, one after the other.
C21_Witness ==
    /\ requests # << >>
    /\ \E t, u \in Threads :
          /\ t # u
          /\ requests[t].target = requests[u].target
          /\ requests[t].wrote /\ requests[u].wrote
----------------------------------------------------------------------------
(* Extraction: the review extractor (extraction_openweb.py) and the
   extraction manager with its database-backed control row
   (extraction_manager.py).  A step of a thread is one database round trip. *)

max_retries == 3

MaxPages == 2
MaxQueue == 1
MaxSectors == 2
MaxProcesses == 2
MaxWorkers == 2
MaxCalls == 1

\* One attempt of fetch_reviews_page: what each API answers if it is asked.
\* "timeout" is requests.exceptions.Timeout (or another RequestException).
attempt_response(openweb, rapidapi) == [openweb |-> openweb, rapidapi |-> rapidapi]

\* fetch_reviews_page from attempt number 'attempt' (0-based) on: TRUE when a
\* page is returned, FALSE when the call raises; api_source is the extractor's
\* attribute after the call.
RECURSIVE fetch_attempts(_, _, _, _, _)
fetch_attempts(attempt, api_source, attempts, openweb_key, rapidapi_key) ==
    IF attempt >= max_retries
    THEN [returned |-> FALSE, api_source |-> api_source]
    ELSE LET response == attempts[attempt + 1]
             last == attempt = max_retries - 1
             next(source) == fetch_attempts(attempt + 1, source, attempts,
                                            openweb_key, rapidapi_key)
             raise(source) == [returned |-> FALSE, api_source |-> source]
             page(source) == [returned |-> TRUE, api_source |-> source]
             \* the block "if self.api_source in ('rapidapi_fallback', 'rapidapi')"
             \* and the test "if attempt == max_retries - 1" after it
             rapidapi(source) ==
                 IF source \in {"rapidapi_fallback", "rapidapi"} /\ rapidapi_key
                 THEN CASE response.rapidapi = "200" -> page(source)
                        [] response.rapidapi = "timeout" ->
                               IF last THEN raise(source) ELSE next(source)
                        [] response.rapidapi = "429" -> next(source)
                        [] OTHER -> IF last THEN raise(source) ELSE next(source)
                 ELSE IF last THEN raise(source) ELSE next(source)
         IN IF api_source = "openweb_ninja" /\ openweb_key
            THEN CASE response.openweb = "200" -> page(api_source)
                   [] response.openweb = "timeout" ->
                          IF last THEN raise(api_source) ELSE next(api_source)
                   [] response.openweb \in {"401", "403"} -> rapidapi("rapidapi_fallback")
                   [] response.openweb = "429" -> next(api_source)
                   [] OTHER -> IF last THEN rapidapi(api_source) ELSE next(api_source)
            ELSE rapidapi(api_source)

fetch_reviews_page(api_source, attempts, openweb_key, rapidapi_key) ==
    fetch_attempts(0, api_source, attempts, openweb_key, rapidapi_key)

\* The extractor after __init__.
new_extractor ==
    [success |-> None, api_source |-> "openweb_ninja", page_count |-> None,
     pages_extracted |-> 0, new_reviews_saved |-> 0, pages_fetched |-> {},
     failure_page |-> None]

\* The loop "for page in range(2, total_pages + 1)" of extract_all_reviews from
\* 'page' on.  pages[p] is what the API holds for page p: the answers to the
\* attempts and the number of new reviews of the page.
RECURSIVE extract_pages_from(_, _, _, _, _, _)
extract_pages_from(page, total_pages, extractor, pages, openweb_key, rapidapi_key) ==
    IF page > total_pages THEN extractor
    ELSE LET fetched == fetch_reviews_page(extractor.api_source, pages[page].attempts,
                                           openweb_key, rapidapi_key)
         IN IF ~fetched.returned
            \* except Exception: self._log_failure(str(e), page); break
            THEN [extractor EXCEPT !.api_source = fetched.api_source,
                                   !.failure_page = page]
            ELSE IF pages[page].reviews = 0
            \* "if not page_reviews: continue"
            THEN extract_pages_from(page + 1, total_pages,
                     [extractor EXCEPT !.api_source = fetched.api_source,
                                       !.pages_fetched = @ \cup {page}],
                     pages, openweb_key, rapidapi_key)
            ELSE extract_pages_from(page + 1, total_pages,
                     [extractor EXCEPT !.api_source = fetched.api_source,
                                       !.pages_fetched = @ \cup {page},
                                       !.new_reviews_saved = @ + pages[page].reviews,
                                       !.pages_extracted = page],
                     pages, openweb_key, rapidapi_key)

\* extract_all_reviews: the extractor when the call returns; success is the
\* return value.  page_count is the page_count of the first page's data.
extract_all_reviews(page_count, pages, openweb_key, rapidapi_key) ==
    LET first_page == fetch_reviews_page(new_extractor.api_source, pages[1].attempts,
                                         openweb_key, rapidapi_key)
    IN IF ~first_page.returned
       \* the outer except: self._log_failure(str(e), None); return False
       THEN [new_extractor EXCEPT !.success = FALSE,
                                  !.api_source = first_page.api_source]
       ELSE [extract_pages_from(2, page_count,
                 [new_extractor EXCEPT !.api_source = first_page.api_source,
                                       !.page_count = page_count,
                                       !.pages_fetched = {1},
                                       !.new_reviews_saved = pages[1].reviews,
                                       !.pages_extracted = 1],
                 pages, openweb_key, rapidapi_key)
             EXCEPT !.success = TRUE]

----------------------------------------------------------------------------
(* The control row and the queue *)

AllSectors ==
    <<"Financials", "Industrials", "Information Technology", "Health Care",
      "Consumer Discretionary", "Consumer Staples", "Energy", "Materials",
      "Communication Services", "Utilities", "Real Estate">>

\* The sectors the queue of the model has companies in.
SECTOR_ORDER == SubSeq(AllSectors, 1, Min(MaxSectors, Len(AllSectors)))

QueueIds == 1..MaxQueue
Processes == 1..MaxProcesses

\* The queue rows are spread over the sectors; issuer names are in id order.
gics_sector(q_id) == SECTOR_ORDER[((q_id - 1) % Len(SECTOR_ORDER)) + 1]

control_row(command, current_company, current_sector) ==
    [command |-> command, current_company |-> current_company,
     current_sector |-> current_sector]

_get_db_command(control) == control.command

_set_db_command(command, current_company, current_sector) ==
    control_row(command, current_company, current_sector)

_update_queue_status(queue, queue_id, status) ==
    [queue EXCEPT ![queue_id] = [@ EXCEPT !.status = status]]

\* init_extraction_control: the tables after the startup cleanup.
init_extraction_control(control, queue) ==
    [queue |-> [q_id \in DOMAIN queue |->
                   IF queue[q_id].status = "extracting"
                   THEN [queue[q_id] EXCEPT !.status = "pending"]
                   ELSE queue[q_id]],
     control |-> IF control.command \in {"running", "paused"}
                 THEN control_row("idle", None, None)
                 ELSE control]

_check_should_stop(control) == _get_db_command(control) \in {"stop_requested", "idle"}

_check_should_pause(control) == _get_db_command(control) = "paused"

\* The rows "WHERE gics_sector = %s AND status IN ('pending', 'failed')
\* ORDER BY issuer_name".
sector_companies(queue, sector) ==
    SelectSeq([q_id \in 1..Len(queue) |-> q_id],
              LAMBDA q_id : /\ gics_sector(q_id) = sector
                            /\ queue[q_id].status \in {"pending", "failed"})

----------------------------------------------------------------------------
(* The worker thread: _run_extraction and _process_company *)

worker_at(process, pc, sectors, companies) ==
    [process |-> process, pc |-> pc, sectors |-> sectors, companies |-> companies]

WorkerIds == DOMAIN workers

is_alive(w) == w \in DOMAIN workers /\ workers[w].pc \notin {"finished", "lost"}

goto(w, pc) == workers' = [workers EXCEPT ![w].pc = pc]

\* "break" out of the company loop, or its end: on to the next sector.
next_sector(w) ==
    workers' = [workers EXCEPT ![w] =
                   worker_at(@.process, "sector", Tail(@.sectors), << >>)]

\* After a company: time.sleep(0.3) and on to the next one.
next_company(w) ==
    workers' = [workers EXCEPT ![w] =
                   worker_at(@.process, "company", @.sectors, Tail(@.companies))]

\* "for sector in sectors_to_process: if self._check_should_stop(): break"
WorkerSector ==
    \E w \in WorkerIds :
        /\ workers[w].pc = "sector"
        /\ IF workers[w].sectors = << >> \/ _check_should_stop(extraction_control)
           THEN goto(w, "finally")
           ELSE goto(w, "sector_running")
        /\ UNCHANGED <<exceptExtractionVars, extraction_control, extraction_queue,
                       extractors, manager_thread, control_calls>>

\* _set_db_command('running', current_sector=sector)
WorkerSectorRunning ==
    \E w \in WorkerIds :
        /\ workers[w].pc = "sector_running"
        /\ extraction_control' =
               _set_db_command("running", None, PyStr(Head(workers[w].sectors)))
        /\ goto(w, "load")
        /\ UNCHANGED <<exceptExtractionVars, extraction_queue, extractors,
                       manager_thread, control_calls>>

\* The SELECT of the sector's pending and failed companies.
WorkerLoad ==
    \E w \in WorkerIds :
        /\ workers[w].pc = "load"
        /\ workers' = [workers EXCEPT ![w] =
               worker_at(@.process, "company", @.sectors,
                         sector_companies(extraction_queue, Head(@.sectors)))]
        /\ UNCHANGED <<exceptExtractionVars, extraction_control, extraction_queue,
                       extractors, manager_thread, control_calls>>

\* "for company in companies: if self._check_should_stop(): break"
WorkerCompany ==
    \E w \in WorkerIds :
        /\ workers[w].pc = "company"
        /\ IF workers[w].companies = << >> \/ _check_should_stop(extraction_control)
           THEN next_sector(w)
           ELSE goto(w, "pause")
        /\ UNCHANGED <<exceptExtractionVars, extraction_control, extraction_queue,
                       extractors, manager_thread, control_calls>>

\* "while self._check_should_pause() and ..." : the first test.
WorkerPause ==
    \E w \in WorkerIds :
        /\ workers[w].pc = "pause"
        /\ IF _check_should_pause(extraction_control)
           THEN goto(w, "pause_stop")
           ELSE goto(w, "resume")
        /\ UNCHANGED <<exceptExtractionVars, extraction_control, extraction_queue,
                       extractors, manager_thread, control_calls>>

\* "... and not self._check_should_stop(): time.sleep(1)" : the second test.
WorkerPauseStop ==
    \E w \in WorkerIds :
        /\ workers[w].pc = "pause_stop"
        /\ IF _check_should_stop(extraction_control)
           THEN goto(w, "resume")
           ELSE goto(w, "pause")
        /\ UNCHANGED <<exceptExtractionVars, extraction_control, extraction_queue,
                       extractors, manager_thread, control_calls>>

\* "if self._check_should_stop(): break" after the pause loop.
WorkerResume ==
    \E w \in WorkerIds :
        /\ workers[w].pc = "resume"
        /\ IF _check_should_stop(extraction_control)
           THEN next_sector(w)
           ELSE goto(w, "company_running")
        /\ UNCHANGED <<exceptExtractionVars, extraction_control, extraction_queue,
                       extractors, manager_thread, control_calls>>

\* _set_db_command('running', current_company=issuer_name, current_sector=sector)
WorkerCompanyRunning ==
    \E w \in WorkerIds :
        /\ workers[w].pc = "company_running"
        /\ extraction_control' =
               _set_db_command("running", PyInt(Head(workers[w].companies)),
                               PyStr(Head(workers[w].sectors)))
        /\ goto(w, "searching")
        /\ UNCHANGED <<exceptExtractionVars, extraction_queue, extractors,
                       manager_thread, control_calls>>

\* _process_company: self._update_queue_status(q_id, 'searching', started_at=...)
WorkerSearching ==
    \E w \in WorkerIds :
        /\ workers[w].pc = "searching"
        /\ extraction_queue' = _update_queue_status(extraction_queue,
                                   Head(workers[w].companies), "searching")
        /\ goto(w, "matching")
        /\ UNCHANGED <<exceptExtractionVars, extraction_control, extractors,
                       manager_thread, control_calls>>

\* _process_company from the search to the status after the match: the search
\* raises (no API key; the handler of _run_extraction marks the entry failed),
\* finds no acceptable match, or finds one.
SearchOutcomes == {"raises", "no_match", "match"}

WorkerMatching ==
    \E w \in WorkerIds, outcome \in SearchOutcomes :
        /\ workers[w].pc = "matching"
        /\ LET q_id == Head(workers[w].companies)
           IN CASE outcome = "raises" ->
                       /\ extraction_queue' =
                              _update_queue_status(extraction_queue, q_id, "failed")
                       /\ next_company(w)
                [] outcome = "no_match" ->
                       /\ extraction_queue' =
                              _update_queue_status(extraction_queue, q_id, "no_match")
                       /\ next_company(w)
                [] outcome = "match" ->
                       /\ extraction_queue' =
                              _update_queue_status(
                                  _update_queue_status(extraction_queue, q_id,
                                                       "searching"),
                                  q_id, "extracting")
                       /\ goto(w, "extracting")
        /\ UNCHANGED <<exceptExtractionVars, extraction_control, extractors,
                       manager_thread, control_calls>>

\* What the API answers to the three attempts on a page: at once, after a
\* server error and a rate limit, or never.
AttemptPatterns ==
    {<<attempt_response("200", "200"), attempt_response("200", "200"),
       attempt_response("200", "200")>>,
     <<attempt_response("500", "500"), attempt_response("429", "429"),
       attempt_response("200", "200")>>,
     <<attempt_response("500", "500"), attempt_response("timeout", "500"),
       attempt_response("500", "500")>>}

\* What the API holds for the pages of a company.
ApiPages ==
    [1..MaxPages -> {[attempts |-> attempts, reviews |-> 1] :
                        attempts \in AttemptPatterns}]

\* _process_company after extract_all_reviews: the status written from the
\* extractor's result.
extraction_status(extractor) == IF extractor.success THEN "completed" ELSE "failed"

\* extractor.extract_all_reviews(...) and the status written from its result.
WorkerExtracting ==
    \E w \in WorkerIds, page_count \in 1..MaxPages, pages \in ApiPages :
        /\ workers[w].pc = "extracting"
        /\ extraction_queue' =
               _update_queue_status(extraction_queue, Head(workers[w].companies),
                   extraction_status(extract_all_reviews(page_count, pages, TRUE, TRUE)))
        /\ next_company(w)
        /\ UNCHANGED <<exceptExtractionVars, extraction_control, extractors,
                       manager_thread, control_calls>>

\* "finally: _set_db_command('idle')", and the thread ends.
WorkerFinally ==
    \E w \in WorkerIds :
        /\ workers[w].pc = "finally"
        /\ extraction_control' = _set_db_command("idle", None, None)
        /\ workers' = [workers EXCEPT ![w] = worker_at(@.process, "finished", << >>, << >>)]
        /\ UNCHANGED <<exceptExtractionVars, extraction_queue, extractors,
                       manager_thread, control_calls>>

----------------------------------------------------------------------------
(* The control calls: start(), pause(), stop() of the process's singleton *)

call_at(op, pc, db_cmd) == [op |-> op, pc |-> pc, db_cmd |-> db_cmd]

\* self._thread is not None and self._thread.is_alive()
thread_alive(p) == manager_thread[p] # None /\ is_alive(manager_thread[p].value)

\* threading.Thread(target=self._run_extraction, ...).start() in process p.
launch(p) ==
    /\ Len(workers) < MaxWorkers
    /\ workers' = Append(workers, worker_at(p, "sector", SECTOR_ORDER, << >>))
    /\ manager_thread' = [manager_thread EXCEPT ![p] = PyInt(Len(workers) + 1)]

\* The control calls being executed.
calls_running == Cardinality({p \in Processes : control_calls[p] # None})

\* start(): db_cmd = _get_db_command()
StartRead ==
    \E p \in Processes :
        /\ control_calls[p] = None
        /\ calls_running < MaxCalls
        /\ Len(workers) < MaxWorkers
        /\ control_calls' = [control_calls EXCEPT ![p] =
               call_at("start", "write", _get_db_command(extraction_control))]
        /\ UNCHANGED <<exceptExtractionVars, extraction_control, extraction_queue,
                       extractors, workers, manager_thread>>

\* start(): the branch taken on db_cmd.
StartWrite(p) ==
    /\ control_calls[p] # None
    /\ control_calls[p].op = "start"
    /\ LET db_cmd == control_calls[p].db_cmd
       IN CASE db_cmd = "paused" /\ thread_alive(p) ->
                   /\ extraction_control' = _set_db_command("running", None, None)
                   /\ UNCHANGED <<workers, manager_thread>>
            [] db_cmd = "paused" /\ ~thread_alive(p) ->
                   /\ extraction_control' = _set_db_command("running", None, None)
                   /\ launch(p)
            [] db_cmd = "running" /\ thread_alive(p) ->
                   UNCHANGED <<extraction_control, workers, manager_thread>>
            [] db_cmd = "running" /\ ~thread_alive(p) ->
                   /\ launch(p)
                   /\ UNCHANGED extraction_control
            [] OTHER ->
                   /\ extraction_control' = _set_db_command("running", None, None)
                   /\ launch(p)
    /\ control_calls' = [control_calls EXCEPT ![p] = None]
    /\ UNCHANGED <<exceptExtractionVars, extraction_queue, extractors>>

Start == \E p \in Processes : StartWrite(p)

\* pause(): db_cmd = _get_db_command(); "if db_cmd != 'running': return"
PauseRead ==
    \E p \in Processes :
        /\ control_calls[p] = None
        /\ calls_running < MaxCalls
        /\ control_calls' = [control_calls EXCEPT ![p] =
               IF _get_db_command(extraction_control) # "running" THEN None
               ELSE call_at("pause", "write", "running")]
        /\ UNCHANGED <<exceptExtractionVars, extraction_control, extraction_queue,
                       extractors, workers, manager_thread>>

\* pause(): _set_db_command('paused')
PauseWrite ==
    \E p \in Processes :
        /\ control_calls[p] # None
        /\ control_calls[p].op = "pause"
        /\ extraction_control' = _set_db_command("paused", None, None)
        /\ control_calls' = [control_calls EXCEPT ![p] = None]
        /\ UNCHANGED <<exceptExtractionVars, extraction_queue, extractors, workers,
                       manager_thread>>

\* stop(): db_cmd = _get_db_command()
StopRead ==
    \E p \in Processes :
        /\ control_calls[p] = None
        /\ calls_running < MaxCalls
        /\ control_calls' = [control_calls EXCEPT ![p] =
               call_at("stop", "write", _get_db_command(extraction_control))]
        /\ UNCHANGED <<exceptExtractionVars, extraction_control, extraction_queue,
                       extractors, workers, manager_thread>>

\* stop(): _set_db_command('stop_requested') of either branch.
StopWrite ==
    \E p \in Processes :
        /\ control_calls[p] # None
        /\ control_calls[p].op = "stop"
        /\ control_calls[p].pc = "write"
        /\ extraction_control' = _set_db_command("stop_requested", None, None)
        /\ control_calls' = [control_calls EXCEPT ![p] =
               IF control_calls[p].db_cmd \notin {"running", "paused"}
               THEN call_at("stop", "idle", control_calls[p].db_cmd)
               ELSE None]
        /\ UNCHANGED <<exceptExtractionVars, extraction_queue, extractors, workers,
                       manager_thread>>

\* stop(): time.sleep(0.5); _set_db_command('idle')
StopIdle ==
    \E p \in Processes :
        /\ control_calls[p] # None
        /\ control_calls[p].op = "stop"
        /\ control_calls[p].pc = "idle"
        /\ extraction_control' = _set_db_command("idle", None, None)
        /\ control_calls' = [control_calls EXCEPT ![p] = None]
        /\ UNCHANGED <<exceptExtractionVars, extraction_queue, extractors, workers,
                       manager_thread>>

\* Process p restarts: its threads and calls are lost, its new singleton has
\* no thread, and the startup cleanup init_extraction_control() runs.
Restart(p) ==
    /\ workers' = [w \in DOMAIN workers |->
                      IF workers[w].process = p /\ is_alive(w)
                      THEN worker_at(p, "lost", << >>, << >>)
                      ELSE workers[w]]
    /\ manager_thread' = [manager_thread EXCEPT ![p] = None]
    /\ control_calls' = [control_calls EXCEPT ![p] = None]
    /\ LET cleaned == init_extraction_control(extraction_control, extraction_queue)
       IN /\ extraction_control' = cleaned.control
          /\ extraction_queue' = cleaned.queue
    /\ UNCHANGED <<exceptExtractionVars, extractors>>

ProcessRestart == \E p \in Processes : Restart(p)

InitExtraction ==
    /\ extraction_control = control_row("idle", None, None)
    /\ extraction_queue = [q_id \in QueueIds |-> [status |-> "pending"]]
    /\ extractors = [q_id \in QueueIds |-> None]
    /\ workers = << >>
    /\ manager_thread = [p \in Processes |-> None]
    /\ control_calls = [p \in Processes |-> None]
    /\ review_text = NotCalled
    /\ scores = NotCalled
    /\ composite_call = NotCalled
    /\ composite_score = NotCalled
    /\ analyzer = "none"
    /\ culture_data = << >>
    /\ performance_data = << >>
    /\ results = NotCalled
    /\ review_culture_scores = << >>
    /\ reviews = << >>
    /\ company_metrics = NotCalled
    /\ aggregated = NotCalled
    /\ confidence_metrics = NotCalled
    /\ confidence_result = NotCalled
    /\ mit_max_values_cache = << >>
    /\ company_metrics_cache = << >>
    /\ mit_max_values = NotCalled
    /\ culture_profile = NotCalled
    /\ invalidated = FALSE
    /\ requests = << >>
    /\ company_analysis = NotCalled
    /\ scatter = NotCalled
    /\ scoring_run = NotCalled
    /\ company_culture_profiles = << >>

NextExtraction ==
    \/ WorkerSector
    \/ WorkerSectorRunning
    \/ WorkerLoad
    \/ WorkerCompany
    \/ WorkerPause
    \/ WorkerPauseStop
    \/ WorkerResume
    \/ WorkerCompanyRunning
    \/ WorkerSearching
    \/ WorkerMatching
    \/ WorkerExtracting
    \/ WorkerFinally
    \/ StartRead
    \/ Start
    \/ PauseRead
    \/ PauseWrite
    \/ StopRead
    \/ StopWrite
    \/ StopIdle
    \/ ProcessRestart

SpecExtraction == InitExtraction /\ [][NextExtraction]_vars

----------------------------------------------------------------------------
(* One extraction: _process_company from extract_all_reviews on, for every
   answer of the two APIs *)

\* Statuses of the two APIs on the attempts of one page.
ExtractorAttemptPatterns ==
    AttemptPatterns \cup
    {<<attempt_response("401", "200"), attempt_response("200", "200"),
       attempt_response("200", "200")>>,
     <<attempt_response("403", "500"), attempt_response("200", "429"),
       attempt_response("200", "200")>>,
     <<attempt_response("429", "200"), attempt_response("429", "200"),
       attempt_response("429", "200")>>,
     <<attempt_response("timeout", "200"), attempt_response("timeout", "200"),
       attempt_response("timeout", "200")>>,
     <<attempt_response("500", "200"), attempt_response("500", "200"),
       attempt_response("500", "200")>>}

ExtractorPages ==
    [1..MaxPages -> {[attempts |-> attempts, reviews |-> n] :
                        attempts \in ExtractorAttemptPatterns, n \in 0..1}]

InitExtractor ==
    /\ extraction_control = control_row("running", None, None)
    /\ extraction_queue = [q_id \in QueueIds |-> [status |-> "extracting"]]
    /\ extractors = [q_id \in QueueIds |-> None]
    /\ workers = << >>
    /\ manager_thread = [p \in Processes |-> None]
    /\ control_calls = [p \in Processes |-> None]
    /\ review_text = NotCalled
    /\ scores = NotCalled
    /\ composite_call = NotCalled
    /\ composite_score = NotCalled
    /\ analyzer = "none"
    /\ culture_data = << >>
    /\ performance_data = << >>
    /\ results = NotCalled
    /\ review_culture_scores = << >>
    /\ reviews = << >>
    /\ company_metrics = NotCalled
    /\ aggregated = NotCalled
    /\ confidence_metrics = NotCalled
    /\ confidence_result = NotCalled
    /\ mit_max_values_cache = << >>
    /\ company_metrics_cache = << >>
    /\ mit_max_values = NotCalled
    /\ culture_profile = NotCalled
    /\ invalidated = FALSE
    /\ requests = << >>
    /\ company_analysis = NotCalled
    /\ scatter = NotCalled
    /\ scoring_run = NotCalled
    /\ company_culture_profiles = << >>


\* extractor.extract_all_reviews(sort='MOST_RECENT') and the status update
\* that follows it; api is what the APIs held, kept with the extractor.
ExtractCompany ==
    \E q_id \in QueueIds, page_count \in 0..MaxPages, pages \in ExtractorPages,
       openweb_key \in BOOLEAN, rapidapi_key \in BOOLEAN :
        /\ extractors[q_id] = None
        /\ LET extractor == extract_all_reviews(page_count, pages, openweb_key,
                                                rapidapi_key)
           IN /\ extractors' = [extractors EXCEPT ![q_id] =
                     [extractor |-> extractor,
                      api |-> [page_count |-> page_count, pages |-> pages,
                               openweb_key |-> openweb_key,
                               rapidapi_key |-> rapidapi_key]]]
              /\ extraction_queue' = _update_queue_status(extraction_queue, q_id,
                                         extraction_status(extractor))
        /\ UNCHANGED <<exceptExtractionVars, extraction_control, workers,
                       manager_thread, control_calls>>

NextExtractor == ExtractCompany

SpecExtractor == InitExtractor /\ [][NextExtractor]_vars

----------------------------------------------------------------------------
(* Claims on the extraction *)

\* C27: once pause() has written 'paused' or stop() has written
\* 'stop_requested' while an extraction thread runs, no step other than a
\* start() call turns the command of extraction_control back to 'running'.
C27_ControlRequestKept ==
    [][(/\ extraction_control.command \in {"paused", "stop_requested"}
        /\ \E w \in WorkerIds : is_alive(w)
        /\ extraction_control'.command = "running") => Start]_vars

\* C28: at most one thread runs _run_extraction at any time, whatever the
\* processes that call start().
C28_SingleExtractionThread ==
    Cardinality({w \in WorkerIds : is_alive(w)}) <= 1

\* The pages of the last extraction of q_id whose fetch returned.
all_pages_fetched(q_id) ==
    /\ extractors[q_id] # None
    /\ extractors[q_id].extractor.success
    /\ \A page \in 1..extractors[q_id].extractor.page_count :
           page \in extractors[q_id].extractor.pages_fetched

\* C29: a queue entry is 'completed' only if every page 1..page_count was
\* fetched; an extraction in which the fetch of a page failed leaves the entry
\* 'failed'.
C29_CompletedMeansAllPages ==
    \A q_id \in DOMAIN extraction_queue :
        /\ extraction_queue[q_id].status = "completed" => all_pages_fetched(q_id)
        /\ (extractors[q_id] # None /\ ~all_pages_fetched(q_id))
               => extraction_queue[q_id].status = "failed"

\* The entry a thread of process p has in progress, if it has one.
in_progress(p) ==
    {Head(workers[w].companies) :
        w \in {v \in WorkerIds : /\ workers[v].process = p
                                  /\ workers[v].pc \in {"matching", "extracting"}}}

\* C30: when a process restarts while its thread has an entry in 'searching'
\* or 'extracting', the startup cleanup leaves that entry 'pending' and the
\* command 'idle'.
C30_CleanupUnsticks ==
    [][\A p \in Processes :
          (Restart(p) /\ in_progress(p) # {}) =>
              /\ \A q_id \in in_progress(p) :
                     extraction_queue'[q_id].status = "pending"
              /\ extraction_control'.command = "idle"]_vars

----------------------------------------------------------------------------
(* score_reviews.py, score_reviews_batch.py: the scoring runs and           *)
(* aggregate_to_company_profiles                                            *)

\* "if scored_count % 5000 == 0: conn.commit()"
COMMIT_EVERY == 5000
\* "batch_size = 1000"
batch_size == 1000

\* The reviews a run meets: with and without a process_results keyword, with
\* a blank text, of a second company.
RunReviewRows ==
    {review_row("c1", PyStr(Sentences[2])), review_row("c1", PyStr(Sentences[1])),
     review_row("c1", None), review_row("c2", PyStr(Sentences[5]))}

\* score_review_with_dictionary(review_text) of each of them, computed once.
RunReviewScores ==
    [review \in RunReviewRows |->
        score_review_with_dictionary(PyStr(combined_text(review)))]

\* "scores = score_review_with_dictionary(review_text)"
review_scores(review) ==
    IF review \in RunReviewRows THEN RunReviewScores[review]
    ELSE score_review_with_dictionary(PyStr(combined_text(review)))

\* The reviews the loop reaches the INSERT for: a non-blank text and scores.
scorable(review_rows, id) ==
    /\ ~strips_to_empty(combined_text(review_rows[id]))
    /\ review_scores(review_rows[id]) # None

scored_row(review_rows, id) == score_row(review_rows[id], review_scores(review_rows[id]))

\* conn.commit(): the rows inserted since the last commit become part of the
\* table; in a transaction in which a statement failed the commit is a
\* rollback and they are discarded.
commit(table, txn) ==
    IF txn.aborted THEN table
    ELSE [id \in DOMAIN table \cup DOMAIN txn.pending |->
             IF id \in DOMAIN table THEN table[id] ELSE txn.pending[id]]

\* The loop of score_all_reviews from review i on. txn is the open
\* transaction: the rows inserted in it, whether a statement failed in it
\* (every later statement then fails too, the connection is never rolled
\* back), and scored_count.
RECURSIVE score_reviews_from(_, _, _, _, _)
score_reviews_from(i, review_rows, failing, table, txn) ==
    IF i > Len(review_rows) THEN commit(table, txn)
    ELSE IF ~scorable(review_rows, i)
    THEN score_reviews_from(i + 1, review_rows, failing, table, txn)
    ELSE IF txn.aborted \/ i \in failing
    THEN score_reviews_from(i + 1, review_rows, failing, table,
                            [txn EXCEPT !.aborted = TRUE])
    ELSE LET pending == IF i \in DOMAIN table \cup DOMAIN txn.pending THEN txn.pending
                        ELSE [id \in DOMAIN txn.pending \cup {i} |->
                                 IF id = i THEN scored_row(review_rows, i)
                                 ELSE txn.pending[id]]
             scored_count == txn.scored_count + 1
         IN IF scored_count % COMMIT_EVERY = 0
            THEN score_reviews_from(i + 1, review_rows, failing,
                     commit(table, [txn EXCEPT !.pending = pending]),
                     [pending |-> << >>, aborted |-> FALSE, scored_count |-> scored_count])
            ELSE score_reviews_from(i + 1, review_rows, failing, table,
                     [pending |-> pending, aborted |-> FALSE,
                      scored_count |-> scored_count])

\* score_all_reviews of score_reviews.py, the inserts of the reviews in
\* failing raising an exception.
score_all_reviews_failing(review_rows, failing, table) ==
    score_reviews_from(1, review_rows, failing, table,
                       [pending |-> << >>, aborted |-> FALSE, scored_count |-> 0])

\* execute_batch and conn.commit() of one batch; "except: conn.rollback()"
\* when an insert of the batch fails.
insert_batch(table, batch_data, review_rows, failing) ==
    IF batch_data \cap failing # {} THEN table
    ELSE [id \in DOMAIN table \cup batch_data |->
             IF id \in DOMAIN table THEN table[id] ELSE scored_row(review_rows, id)]

\* The loop of score_all_reviews_batch over the fetched reviews, and the
\* final batch.
RECURSIVE score_batches_from(_, _, _, _, _, _)
score_batches_from(i, fetched, review_rows, failing, table, batch_data) ==
    IF i > Len(fetched)
    THEN IF batch_data # {} THEN insert_batch(table, batch_data, review_rows, failing)
         ELSE table
    ELSE IF ~scorable(review_rows, fetched[i])
    THEN score_batches_from(i + 1, fetched, review_rows, failing, table, batch_data)
    ELSE LET batch == batch_data \cup {fetched[i]}
         IN IF Cardinality(batch) >= batch_size
            THEN score_batches_from(i + 1, fetched, review_rows, failing,
                     insert_batch(table, batch, review_rows, failing), {})
            ELSE score_batches_from(i + 1, fetched, review_rows, failing, table, batch)

\* score_all_reviews_batch: the reviews without a score row are fetched.
score_all_reviews_batch(review_rows, failing, table) ==
    LET fetched == SelectSeq([i \in 1..Len(review_rows) |-> i],
                             LAMBDA id : id \notin DOMAIN table)
    IN score_batches_from(1, fetched, review_rows, failing, table, {})

\* statistics.stdev of two or more values, carried as its square: the sum of
\* the squared differences from the mean over n - 1.
stdev(values) ==
    LET m == mean(values)
        squares == [k \in 1..Len(values) |->
                       RatMul(RatSub(values[k], m), RatSub(values[k], m))]
    IN [squared |-> py_div(RatSum(squares), Rat(Len(values) - 1, 1))]

\* "SELECT ... FROM review_culture_scores WHERE company_name = %s AND
\*  process_results_score IS NOT NULL", in the order of the review ids.
profile_scores(review_rows, table, company) ==
    LET ids == SelectSeq([i \in 1..Len(review_rows) |-> i],
                   LAMBDA id : /\ id \in company_ids(table, company)
                               /\ table[id].process_results # None)
    IN [k \in 1..Len(ids) |-> table[ids[k]]]

\* The row aggregate_to_company_profiles stores for a company; the columns
\* of a dimension without values are NULL. last_updated and the data period
\* are not carried.
profile_row(fetched) ==
    LET values(dim) == LET kept == SelectSeq(fetched, LAMBDA s : s[dim] # None)
                       IN [k \in 1..Len(kept) |-> kept[k][dim]]
    IN [mean |-> [dim \in HofstedeDims \cup MitDims |->
                     IF values(dim) # << >> THEN mean(values(dim)) ELSE None],
        std |-> [dim \in HofstedeDims \cup MitDims |->
                    IF values(dim) = << >> THEN None
                    ELSE IF Len(values(dim)) > 1 THEN stdev(values(dim))
                    ELSE Rat(0, 1)],
        review_count |-> Len(fetched)]

\* aggregate_to_company_profiles: table company_culture_profiles after it.
aggregate_to_company_profiles(review_rows, table, profiles) ==
    LET companies == {company \in {review_rows[id].company_name : id \in DOMAIN review_rows} :
                         profile_scores(review_rows, table, company) # << >>}
    IN [company \in DOMAIN profiles \cup companies |->
           IF company \in companies
           THEN profile_row(profile_scores(review_rows, table, company))
           ELSE profiles[company]]

----------------------------------------------------------------------------
(* The scoring scripts: the tables and the runs *)

MaxRunReviews == 3

ScoringScripts == {"score_reviews", "score_reviews_batch"}

\* The inserts of a run that raise: none, or the insert of one review.
FailingInserts(review_rows) == {{}} \cup {{id} : id \in DOMAIN review_rows}

InitScoring ==
    /\ reviews \in [1..MaxRunReviews -> RunReviewRows]
    /\ \E k \in 0..1 :
          review_culture_scores = score_all_reviews(SubSeq(reviews, 1, k), << >>)
    /\ scoring_run = NotCalled
    /\ company_culture_profiles = << >>
    /\ company_metrics = NotCalled
    /\ review_text = NotCalled
    /\ scores = NotCalled
    /\ composite_call = NotCalled
    /\ composite_score = NotCalled
    /\ analyzer = "none"
    /\ culture_data = << >>
    /\ performance_data = << >>
    /\ results = NotCalled
    /\ aggregated = NotCalled
    /\ confidence_metrics = NotCalled
    /\ confidence_result = NotCalled
    /\ mit_max_values_cache = << >>
    /\ company_metrics_cache = << >>
    /\ mit_max_values = NotCalled
    /\ culture_profile = NotCalled
    /\ invalidated = FALSE
    /\ requests = << >>
    /\ company_analysis = NotCalled
    /\ scatter = NotCalled
    /\ extraction_control = [command |-> "idle", current_company |-> None, current_sector |-> None]
    /\ extraction_queue = << >>
    /\ extractors = << >>
    /\ workers = << >>
    /\ manager_thread = << >>
    /\ control_calls = << >>

\* score_all_reviews() of score_reviews.py or score_all_reviews_batch().
RunScoring ==
    /\ \E script \in ScoringScripts, failing \in FailingInserts(reviews) :
          /\ review_culture_scores' =
                IF script = "score_reviews"
                THEN score_all_reviews_failing(reviews, failing, review_culture_scores)
                ELSE score_all_reviews_batch(reviews, failing, review_culture_scores)
          /\ scoring_run' = [script |-> script, failing |-> failing, phase |-> "scored"]
    /\ invalidated' = IF review_culture_scores' # review_culture_scores THEN FALSE
                      ELSE invalidated
    /\ UNCHANGED <<exceptScoringVars, reviews, company_metrics, company_culture_profiles>>

\* aggregate_to_company_profiles(), which both scripts call after the scoring.
AggregateToCompanyProfiles ==
    /\ scoring_run # NotCalled
    /\ scoring_run.phase = "scored"
    /\ company_culture_profiles' =
           aggregate_to_company_profiles(reviews, review_culture_scores,
                                         company_culture_profiles)
    /\ scoring_run' = [scoring_run EXCEPT !.phase = "aggregated"]
    /\ UNCHANGED <<exceptScoringVars, metricsVars, invalidated>>

NextScoring == RunScoring \/ AggregateToCompanyProfiles

SpecScoring == InitScoring /\ [][NextScoring]_vars

\* C25: when the insert of one review fails, every other review with a
\* non-blank text has its score row in review_culture_scores at the end of the
\* run.
C25_OthersPersisted ==
    scoring_run # NotCalled =>
        \A id \in DOMAIN reviews :
            (scorable(reviews, id) /\ id \notin scoring_run.failing)
                => id \in DOMAIN review_culture_scores

\* C26: after aggregate_to_company_profiles the profile of each company holds,
\* for each dimension D, the mean of D over all score rows of the company
\* whose D score is non-null, whatever their other scores are.
C26_MeanOverAllScored ==
    (scoring_run # NotCalled /\ scoring_run.phase = "aggregated") =>
        \A company \in {reviews[id].company_name : id \in DOMAIN reviews} :
            \A dim \in HofstedeDims \cup MitDims :
                sql_avg(review_culture_scores, company, dim) # None =>
                    /\ company \in DOMAIN company_culture_profiles
                    /\ company_culture_profiles[company].mean[dim]
                           = sql_avg(review_culture_scores, company, dim)
----------------------------------------------------------------------------
(* The correlation summary: properties *)

\* The (framework, dimension) pairs whose composite_score entry is in the
\* results, each with the label the summary gives its framework.
composite_pairs ==
    {p \in {<<"hofstede", "Hofstede">>, <<"mit", "MIT">>}
              \X (Range(culture_dimensions) \cup Range(mit_dimensions)) :
        has_entry(p[1][1], p[2], "composite_score")}

composite_correlation(p) == results[p[1][1]][p[2]]["composite_score"].correlation

\* No entry that calculate_correlation ranks holds a nan.
ranking_defined ==
    \A framework \in Frameworks : \A dim \in DOMAIN results[framework] :
        \A metric \in DOMAIN results[framework][dim] :
            (analyzer = "PerformanceAnalyzer" \/ metric = "composite_score")
                => results[framework][dim][metric].correlation # NaN

\* list holds composite entries only, each with the correlation of its pair.
composite_only(list) ==
    \A k \in 1..Len(list) :
        /\ list[k].metric = "composite_score"
        /\ \E p \in composite_pairs :
              /\ p[1][2] = list[k].framework
              /\ p[2] = list[k].dimension
              /\ composite_correlation(p) = list[k].correlation

\* list holds min(5, number of composite entries) entries in descending order
\* (ascending when upward), and no composite entry outside it lies beyond its
\* last entry.
takes_extreme_five(list, upward) ==
    LET beyond(r1, r2) == IF upward THEN correlation_less(r1, r2)
                          ELSE correlation_less(r2, r1)
        listed == {<<list[k].framework, list[k].dimension>> : k \in 1..Len(list)}
    IN /\ Len(list) = Min(5, Cardinality(composite_pairs))
       /\ Cardinality(listed) = Len(list)
       /\ \A k, l \in 1..Len(list) :
             k < l => ~beyond(list[l].correlation, list[k].correlation)
       /\ \A p \in composite_pairs :
             <<p[1][2], p[2]>> \notin listed =>
                ~beyond(composite_correlation(p), list[Len(list)].correlation)

\* C22: the summary ranks the composite_score correlations only:
\* strongest_positive is the 5 largest in descending order, strongest_negative
\* the 5 smallest, most negative first, and no entry of another metric is in
\* either list.
C22_SummaryCompositeOnly ==
    (results # NotCalled /\ ranking_defined) =>
        /\ composite_only(results.summary.strongest_positive)
        /\ composite_only(results.summary.strongest_negative)
        /\ takes_extreme_five(results.summary.strongest_positive, FALSE)
        /\ takes_extreme_five(results.summary.strongest_negative, TRUE)

====
